---- MODULE Spec2Model ----
(***************************************************************************)
(* A model of the retrieval core of Lab-Helper: the alias index            *)
(* (db/aliases.py), the staged search (db/query.py) and the SDS retriever  *)
(* tool (agent/agent_tools/retriever.py).                                  *)
(*                                                                         *)
(* Python strings are modelled as sequences of one-character strings, so   *)
(* that strip(), lower(), upper(), substring containment, sorting and the  *)
(* regular expressions are computed and not assumed.                       *)
(***************************************************************************)
EXTENDS Integers, Sequences, FiniteSets, TLC

VARIABLES
    cache,   \* aliases._cache: 0 for None, else the id of a dict object in heap
    heap,    \* the dict objects created by _load, in order of creation
    file,    \* data/alias_index.json: [st |-> "absent" | "torn" | "ok", map |-> dict]
    last,    \* the call that has just returned: its arguments, result and pre-state
    lock,    \* aliases._lock: 0 when free, else the thread that holds it
    pc,      \* per thread: its position in the call it is running
    call,    \* per thread: the call it is running
    data,    \* per thread: the local variable `data` (a reference into heap)
    rd,      \* per thread: the value json.load returned inside _load
    hist,    \* the calls made so far, in order of invocation
    corpus,  \* the chunks of the vector store: text and metadata of each
    srch,    \* the search that has just returned: its arguments, result and trace
    calc,    \* the last call of the calculator: its payload and what it gave
    mix      \* the last call of the mixture analysis: its arguments and result

vars == <<cache, heap, file, last, lock, pc, call, data, rd, hist, corpus, srch, calc, mix>>

-----------------------------------------------------------------------------
(* Strings *)

\* The characters of the model in code-point order (str comparison in sorted()).
AsciiOrder ==
    <<"\n", " ", "-", "0", "1", "2", "3", "4", "5", "6", "7", "8", "9",
      "A", "B", "C", "D", "E", "F", "G", "H", "I", "J", "K", "L", "M",
      "N", "O", "P", "Q", "R", "S", "T", "U", "V", "W", "X", "Y", "Z", "_",
      "a", "b", "c", "d", "e", "f", "g", "h", "i", "j", "k", "l", "m",
      "n", "o", "p", "q", "r", "s", "t", "u", "v", "w", "x", "y", "z">>

\* ord(c), as the position of c in AsciiOrder
CodeOf ==
    [c \in {AsciiOrder[i] : i \in 1..Len(AsciiOrder)} |->
        CHOOSE i \in 1..Len(AsciiOrder) : AsciiOrder[i] = c]

Code(c) == CodeOf[c]

\* str.isspace, \s
IsSpace(c) == c \in {" ", "\n"}
IsDigit(c) == c \in {"0", "1", "2", "3", "4", "5", "6", "7", "8", "9"}
IsUpper(c) == Code(c) \in Code("A")..Code("Z")
IsLower(c) == Code(c) \in Code("a")..Code("z")
\* \w of the re module
IsWordChar(c) == IsDigit(c) \/ IsUpper(c) \/ IsLower(c) \/ c = "_"

LowerChar(c) == IF IsUpper(c) THEN AsciiOrder[Code(c) - Code("A") + Code("a")] ELSE c
UpperChar(c) == IF IsLower(c) THEN AsciiOrder[Code(c) - Code("a") + Code("A")] ELSE c

\* str.lower(), str.upper()
Lower(s) == [i \in 1..Len(s) |-> LowerChar(s[i])]
Upper(s) == [i \in 1..Len(s) |-> UpperChar(s[i])]

RECURSIVE LStrip(_)
LStrip(s) == IF s # <<>> /\ IsSpace(Head(s)) THEN LStrip(Tail(s)) ELSE s

RECURSIVE RStrip(_)
RStrip(s) ==
    IF s # <<>> /\ IsSpace(s[Len(s)]) THEN RStrip(SubSeq(s, 1, Len(s) - 1)) ELSE s

\* str.strip()
Strip(s) == RStrip(LStrip(s))

\* the `in` operator on strings: needle in hay
Contains(hay, needle) ==
    \E i \in 0..(Len(hay) - Len(needle)) :
        \A j \in 1..Len(needle) : hay[i + j] = needle[j]

\* str.__lt__: lexicographic by code point
RECURSIVE StrLess(_, _)
StrLess(a, b) ==
    IF b = <<>> THEN FALSE
    ELSE IF a = <<>> THEN TRUE
    ELSE IF Head(a) # Head(b) THEN Code(Head(a)) < Code(Head(b))
    ELSE StrLess(Tail(a), Tail(b))

\* sorted(set of strings), as a list
RECURSIVE SortedStrs(_)
SortedStrs(S) ==
    IF S = {} THEN <<>>
    ELSE LET m == CHOOSE x \in S : \A y \in S \ {x} : StrLess(x, y)
         IN  <<m>> \o SortedStrs(S \ {m})

\* Python truthiness of a str
Truthy(s) == s # <<>>

\* None, for an Optional[str] argument or result
None == <<"None">>

\* None, for an Optional[List[str]] argument
NoList == <<None>>

-----------------------------------------------------------------------------
(* db/aliases.py: the pure part *)

\* a _norm that trims and keeps the case
Norm_NoLower(s) == Strip(s)

\* _norm
Norm(s) == Lower(Strip(s))

EmptyMap == [k \in {} |-> <<>>]

\* data[k] = v
Put(d, k, v) == [x \in DOMAIN d \cup {k} |-> IF x = k THEN v ELSE d[x]]

\* del data[k]
Del(d, k) == [x \in DOMAIN d \ {k} |-> d[x]]

\* `not alias or not alias.strip()`
Blank(a) == ~Truthy(a) \/ ~Truthy(Strip(a))

\* the loop `for a in aliases: if a and a.strip(): data[_norm(a)] = m`
RECURSIVE PutAll(_, _, _)
PutAll(d, m, l) ==
    IF l = <<>> THEN d
    ELSE PutAll(IF Blank(Head(l)) THEN d ELSE Put(d, Norm(Head(l)), m), m, Tail(l))

\* the keys of d that map to material m
KeysOf(d, m) == {k \in DOMAIN d : d[k] = m}

\* a set_aliases that drops only one of the aliases of m
ToDelete_OnlyOne(d, m) == IF KeysOf(d, m) = {} THEN {} ELSE {CHOOSE k \in KeysOf(d, m) : TRUE}

\* set_aliases: `to_delete = [a for a, mat in data.items() if mat == m]`
ToDelete(d, m) == KeysOf(d, m)

\* a set_aliases that adds the new aliases and drops none
SetAliasesMap_NoDrop(d, material, l) == PutAll(d, Strip(material), l)

\* set_aliases: the body under the lock
SetAliasesMap(d, material, l) ==
    LET m == Strip(material)
        kept == [x \in DOMAIN d \ ToDelete(d, m) |-> d[x]]
    IN  PutAll(kept, m, l)

\* rename_material: the loop under the lock
RenameMap(d, old, new) == [x \in DOMAIN d |-> IF d[x] = old THEN new ELSE d[x]]

\* the text of data/alias_index.json as json.load reads it: _save writes
\* dict(sorted(data.items())) as one JSON object, and a JSON object of string keys
\* and string values loads back as the same dict (key order is no part of dict
\* equality), so a written file is modelled by the dict it holds
AbsentFile == [st |-> "absent", map |-> EmptyMap]
TornFile == [st |-> "torn", map |-> EmptyMap]
OkFile(d) == [st |-> "ok", map |-> d]

\* what _load reads when the cache is empty: {} when the file does not exist
FileMap(f) == IF f.st = "ok" THEN f.map ELSE EmptyMap

\* Return values: None, a bool, an int, a str, or a raised exception
RetNone == [k |-> "none", b |-> FALSE, n |-> 0, s |-> <<>>]
RetBool(b) == [k |-> "bool", b |-> b, n |-> 0, s |-> <<>>]
RetInt(n) == [k |-> "int", b |-> FALSE, n |-> n, s |-> <<>>]
RetStr(s) == IF s = None THEN RetNone ELSE [k |-> "str", b |-> FALSE, n |-> 0, s |-> s]
RetRaise == [k |-> "raise", b |-> FALSE, n |-> 0, s |-> <<>>]

\* A call of the alias module: op is the function; m is material_name
\* (new_material_name of move_alias, old_material of rename_material, None when
\* remove_alias gets no material); a is alias (new_material of rename_material,
\* q of resolve_alias); l is aliases (known_materials of resolve_alias)
MkCall(op, m, a, l) == [op |-> op, m |-> m, a |-> a, l |-> l]

Mutators ==
    {"add_alias", "add_aliases", "remove_alias", "move_alias", "rename_material",
     "set_aliases"}

\* the returns that come before `with _lock`
EarlyReturn(c) ==
    CASE c.op \in {"add_alias", "remove_alias", "move_alias"} -> Blank(c.a)
      [] c.op = "rename_material" ->
            ~Truthy(Strip(c.m)) \/ ~Truthy(Strip(c.a)) \/ Strip(c.m) = Strip(c.a)
      [] OTHER -> FALSE

EarlyRet(c) ==
    CASE c.op \in {"remove_alias", "move_alias"} -> RetBool(FALSE)
      [] c.op = "rename_material" -> RetInt(0)
      [] OTHER -> RetNone

\* a remove_alias that does not compare the material
Removable_AnyMaterial(d, c) == Norm(c.a) \in DOMAIN d

\* remove_alias: the two `return False` under the lock do not hold
Removable(d, c) ==
    /\ Norm(c.a) \in DOMAIN d
    /\ (c.m # None => d[Norm(c.a)] = Strip(c.m))

\* The body of a mutation under the lock, from `data = _load()` on: the dict it
\* leaves, whether it reaches _save, and what it returns
Body(c, d) ==
    CASE c.op = "add_alias" ->
            [map |-> Put(d, Norm(c.a), Strip(c.m)), saves |-> TRUE, ret |-> RetNone]
      [] c.op = "add_aliases" ->
            [map |-> PutAll(d, Strip(c.m), c.l), saves |-> TRUE, ret |-> RetNone]
      [] c.op = "remove_alias" ->
            IF Removable(d, c)
            THEN [map |-> Del(d, Norm(c.a)), saves |-> TRUE, ret |-> RetBool(TRUE)]
            ELSE [map |-> d, saves |-> FALSE, ret |-> RetBool(FALSE)]
      [] c.op = "move_alias" ->
            [map |-> Put(d, Norm(c.a), Strip(c.m)), saves |-> TRUE, ret |-> RetBool(TRUE)]
      [] c.op = "rename_material" ->
            [map |-> RenameMap(d, Strip(c.m), Strip(c.a)), saves |-> TRUE,
             ret |-> RetInt(Cardinality(KeysOf(d, Strip(c.m))))]
      [] c.op = "set_aliases" ->
            [map |-> SetAliasesMap(d, c.m, c.l), saves |-> TRUE, ret |-> RetNone]

\* the least element of a non-empty set of list indices: the first in iteration order
First(S) == CHOOSE i \in S : \A j \in S : i <= j

\* a resolve_alias that does not consult the alias map
Hit_Skipped(d, key) == None

\* `_load().get(_norm(q_norm))`: the entry, or None
Hit(d, key) == IF key \in DOMAIN d THEN d[key] ELSE None

\* the names the loop `if q_up == name.upper()` accepts, by position
ExactMatches(q_up, known) == {i \in 1..Len(known) : q_up = Upper(known[i])}

\* the names the loop `if q_up in n_up or n_up in q_up` accepts, by position
LooseMatches(q_up, known) ==
    {i \in 1..Len(known) :
        Contains(Upper(known[i]), q_up) \/ Contains(q_up, Upper(known[i]))}

\* resolve_alias, given the dict _load returns
ResolveAlias(d, q, known) ==
    IF ~Truthy(q) THEN None
    ELSE LET q_norm == Strip(q) IN
    IF ~Truthy(q_norm) THEN None
    ELSE LET hit == Hit(d, Norm(q_norm))
             q_up == Upper(q_norm)
         IN  IF hit # None /\ Truthy(hit) THEN hit
             ELSE IF known # NoList /\ known # <<>>
                  THEN IF ExactMatches(q_up, known) # {}
                       THEN known[First(ExactMatches(q_up, known))]
                       ELSE IF LooseMatches(q_up, known) # {}
                            THEN known[First(LooseMatches(q_up, known))]
                            ELSE None
                  ELSE None

-----------------------------------------------------------------------------
(* Inputs *)

\* the longest list of aliases (or of known materials) passed to one call
MaxListLen == 2

\* alias arguments: plain, to be trimmed and lowercased, blank, empty
RawAliases == {<<"h", "f">>, <<" ", "H", "F", " ">>, <<"a">>, <<"b">>, <<" ">>, <<>>}

\* material-name arguments: plain, to be trimmed, blank
RawMaterials == {<<"X">>, <<"X", " ">>, <<"H", "F">>, <<>>}

\* queries of resolve_alias
RawQueries ==
    {<<"h", "f">>, <<" ", "H", "F">>, <<"h">>, <<"h", "f", "x", "y">>, <<"a">>,
     <<" ">>, <<>>}

\* known_materials of resolve_alias: absent, empty, and lists in which the exact
\* match comes after a loose one
KnownLists ==
    {NoList, <<>>, <<<<"H", "F">>>>, <<<<"h", "f", "x">>, <<"H", "F">>>>,
     <<<<"X">>, <<"h", "f", "x">>>>, <<<<"H", "F">>, <<"h", "f">>>>}

\* every list over set S of at most n elements
ListsUpTo(S, n) == UNION {[1..k -> S] : k \in 0..n}

AliasLists == ListsUpTo(RawAliases, MaxListLen)

\* an alias file left by an earlier run of the program
InitialFiles == {AbsentFile, OkFile(Put(EmptyMap, <<"h", "f">>, <<"X">>))}

-----------------------------------------------------------------------------
(* db/aliases.py, one caller: every call runs from its first line to its return *)

NoCall == MkCall("none", None, <<>>, <<>>)

\* a bag of calls: how many times each call was made
EmptyBag == [c \in {} |-> 0]

BagAdd(b, c) ==
    [x \in DOMAIN b \cup {c} |->
        IF x # c THEN b[x] ELSE IF c \in DOMAIN b THEN b[c] + 1 ELSE 1]

BagDel(b, c) ==
    [x \in (IF b[c] = 1 THEN DOMAIN b \ {c} ELSE DOMAIN b) |->
        IF x = c THEN b[c] - 1 ELSE b[x]]

RECURSIVE BagSum(_, _)
BagSum(b, S) ==
    IF S = {} THEN 0
    ELSE LET x == CHOOSE y \in S : TRUE IN b[x] + BagSum(b, S \ {x})

BagSize(b) == BagSum(b, DOMAIN b)

\* hist: the map the program started from (init), the calls made so far, the
\* dict before (pre) and after (post) the body of the mutation in progress (both
\* the latest dict when none is), whether a mutation that saved has returned
\* (wrote), whether a mutation was called while another held the lock (overlap),
\* and whether the process has just been stopped and restarted (crashed)
NoHist == [init |-> EmptyMap, calls |-> EmptyBag, pre |-> EmptyMap, post |-> EmptyMap,
           wrote |-> FALSE, overlap |-> FALSE, crashed |-> FALSE]

\* mix when the mixture analysis has not been called
NoMix ==
    [active |-> FALSE, fn |-> "none", material_names |-> <<>>, relevant_docs |-> <<>>,
     result |-> [key \in {} |-> {}], material_properties |-> [m \in {} |-> {}],
     incompatible_pairs |-> <<>>]

\* calc when the calculator has not been called
NoCalc ==
    [active |-> FALSE, items |-> <<>>, pubchem |-> <<>>, fed |-> FALSE,
     prev |-> <<>>, ok |-> TRUE,
     out |-> [n \in {} |-> <<>>], exc |-> "", msg |-> "", at |-> 0]

\* srch when no search has just returned
NoSearch == [active |-> FALSE, fn |-> "none", query |-> <<>>, k |-> 0,
             locked_material |-> None, tag |-> None, docs |-> <<>>,
             filter |-> [key \in {} |-> <<>>], searches |-> <<>>, reranked |-> FALSE,
             raw |-> <<>>, pos_terms |-> <<>>, neg_terms |-> <<>>,
             names_raise |-> FALSE,
             results |-> <<>>, calls |-> <<>>]

NoLast == [active |-> FALSE, call |-> NoCall, ret |-> RetNone,
           before |-> EmptyMap, fileBefore |-> AbsentFile, loaded |-> FALSE]

\* the dict _load returns in the current state (it raises on an unreadable file)
LoadRaises == cache = 0 /\ file.st = "torn"

\* a _load that reads the file at every call
Loaded_Reloads == IF file.st = "ok" THEN file.map ELSE EmptyMap

\* _load: the cached dict once there is one, else what the file holds
Loaded == IF cache # 0 THEN heap[cache] ELSE FileMap(file)

\* the state of the threads when no thread is modelled
NoThreads ==
    /\ lock = 0
    /\ pc = <<>>
    /\ call = <<>>
    /\ data = <<>>
    /\ rd = <<>>
    /\ hist = NoHist

Returned(c, r) ==
    last' = [active |-> TRUE, call |-> c, ret |-> r, before |-> Loaded,
             fileBefore |-> file, loaded |-> cache # 0]

\* _load, then the dict object it returns is left holding d
LoadAndStore(d) ==
    IF cache # 0
    THEN /\ heap' = [heap EXCEPT ![cache] = d]
         /\ UNCHANGED cache
    ELSE /\ heap' = Append(heap, d)
         /\ cache' = Len(heap) + 1

\* a mutation, from its first line to its return
Mutation(c) ==
    /\ IF EarlyReturn(c)
       THEN /\ Returned(c, EarlyRet(c))
            /\ UNCHANGED <<cache, heap, file>>
       ELSE IF LoadRaises
       THEN /\ Returned(c, RetRaise)
            /\ UNCHANGED <<cache, heap, file>>
       ELSE LET r == Body(c, Loaded) IN
            /\ LoadAndStore(r.map)
            /\ file' = IF r.saves THEN OkFile(r.map) ELSE file
            /\ Returned(c, r.ret)
    /\ UNCHANGED <<lock, pc, call, data, rd, hist, corpus, srch, calc, mix>>

add_alias ==
    \E m \in RawMaterials, a \in RawAliases :
        /\ ~last.active
        /\ Mutation(MkCall("add_alias", m, a, <<>>))

add_aliases ==
    \E m \in RawMaterials, l \in AliasLists :
        /\ ~last.active
        /\ Mutation(MkCall("add_aliases", m, <<>>, l))

remove_alias ==
    \E m \in RawMaterials \cup {None}, a \in RawAliases :
        /\ ~last.active
        /\ Mutation(MkCall("remove_alias", m, a, <<>>))

move_alias ==
    \E m \in RawMaterials, a \in RawAliases :
        /\ ~last.active
        /\ Mutation(MkCall("move_alias", m, a, <<>>))

rename_material ==
    \E old \in RawMaterials, new \in RawMaterials :
        /\ ~last.active
        /\ Mutation(MkCall("rename_material", old, new, <<>>))

set_aliases ==
    \E m \in RawMaterials, l \in AliasLists :
        /\ ~last.active
        /\ Mutation(MkCall("set_aliases", m, <<>>, l))

resolve_alias ==
    \E q \in RawQueries, known \in KnownLists :
        /\ ~last.active
        /\ IF Blank(q)
           THEN /\ Returned(MkCall("resolve_alias", None, q, known), RetNone)
                /\ UNCHANGED <<cache, heap>>
           ELSE IF LoadRaises
           THEN /\ Returned(MkCall("resolve_alias", None, q, known), RetRaise)
                /\ UNCHANGED <<cache, heap>>
           ELSE /\ LoadAndStore(Loaded)
                /\ Returned(MkCall("resolve_alias", None, q, known),
                            RetStr(ResolveAlias(Loaded, q, known)))
        /\ UNCHANGED <<file, lock, pc, call, data, rd, hist, corpus, srch, calc, mix>>

\* the caller takes the result; the next call may start
Return ==
    /\ last.active
    /\ last' = NoLast
    /\ UNCHANGED <<cache, heap, file, lock, pc, call, data, rd, hist, corpus, srch, calc, mix>>

InitSeq ==
    /\ cache = 0
    /\ heap = <<>>
    /\ file \in InitialFiles
    /\ last = NoLast
    /\ NoThreads
    /\ corpus = {}
    /\ srch = NoSearch
    /\ calc = NoCalc
    /\ mix = NoMix

NextSeq ==
    \/ add_alias
    \/ add_aliases
    \/ remove_alias
    \/ move_alias
    \/ rename_material
    \/ set_aliases
    \/ resolve_alias
    \/ Return

SpecSeq == InitSeq /\ [][NextSeq]_vars

-----------------------------------------------------------------------------
(* db/aliases.py, several threads: one step per access to _cache, the file or *)
(* the lock *)

\* the number of threads that call the alias module
NumThreads == 2

\* the number of calls the threads make in all
MaxCalls == 3

Threads == 1..NumThreads

\* the mutations the threads choose from: one of each function, one that returns
\* before the lock
ThreadMutations ==
    {MkCall("add_alias", <<"X">>, <<"h", "f">>, <<>>),
     MkCall("add_alias", <<"X">>, <<" ">>, <<>>),
     MkCall("add_aliases", <<"Y">>, <<>>, <<<<"a">>, <<"H", "F">>>>),
     MkCall("remove_alias", None, <<"h", "f">>, <<>>),
     MkCall("move_alias", <<"X">>, <<"a">>, <<>>),
     MkCall("rename_material", <<"X">>, <<"Y">>, <<>>),
     MkCall("set_aliases", <<"Y">>, <<>>, <<<<"a">>>>)}

\* the reads the threads choose from
ThreadReads == {MkCall("resolve_alias", None, <<"h", "f">>, NoList)}

Idle(t) == pc[t] = "idle"
AllIdle == \A t \in Threads : Idle(t)

\* a lock that never blocks
LockFree_Never == TRUE

\* threading.Lock: `with _lock` blocks until no thread holds it
LockFree == lock = 0

\* a thread back at its caller, its locals gone
Finish(t) ==
    /\ pc' = [pc EXCEPT ![t] = "idle"]
    /\ call' = [call EXCEPT ![t] = NoCall]
    /\ data' = [data EXCEPT ![t] = 0]
    /\ rd' = [rd EXCEPT ![t] = EmptyMap]

Goto(t, where) == pc' = [pc EXCEPT ![t] = where]

\* a thread calls a mutation: the checks before `with _lock`
CallMutation(t) ==
    /\ Idle(t)
    /\ BagSize(hist.calls) < MaxCalls
    /\ \E c \in ThreadMutations :
          /\ hist' = [hist EXCEPT !.calls = BagAdd(@, c), !.crashed = FALSE,
                                  !.overlap = @ \/ (lock # 0 /\ ~EarlyReturn(c))]
          /\ IF EarlyReturn(c)
             THEN UNCHANGED <<pc, call>>
             ELSE /\ Goto(t, "lock")
                  /\ call' = [call EXCEPT ![t] = c]
    /\ UNCHANGED <<cache, heap, file, last, lock, data, rd, corpus, srch, calc, mix>>

\* a thread calls resolve_alias with a non-blank query: it goes on to _load
CallResolve(t) ==
    /\ Idle(t)
    /\ BagSize(hist.calls) < MaxCalls
    /\ \E c \in ThreadReads :
          /\ hist' = [hist EXCEPT !.calls = BagAdd(@, c), !.crashed = FALSE]
          /\ Goto(t, "load_check")
          /\ call' = [call EXCEPT ![t] = c]
    /\ UNCHANGED <<cache, heap, file, last, lock, data, rd, corpus, srch, calc, mix>>

\* `with _lock:` entered
Acquire(t) ==
    /\ pc[t] = "lock"
    /\ LockFree
    /\ lock' = t
    /\ Goto(t, "load_check")
    /\ UNCHANGED <<cache, heap, file, last, call, data, rd, hist, corpus, srch, calc, mix>>

\* _load: `if _cache is None`
LoadCheck(t) ==
    /\ pc[t] = "load_check"
    /\ Goto(t, IF cache = 0 THEN "load_read" ELSE "load_ret")
    /\ UNCHANGED <<cache, heap, file, last, lock, call, data, rd, hist, corpus, srch, calc, mix>>

\* _load: os.path.exists, open and json.load; json.load raises on a file that
\* holds no complete JSON text, which ends the call (and leaves `with _lock`)
LoadRead(t) ==
    /\ pc[t] = "load_read"
    /\ IF file.st = "torn"
       THEN /\ Finish(t)
            /\ lock' = IF lock = t THEN 0 ELSE lock
       ELSE /\ rd' = [rd EXCEPT ![t] = FileMap(file)]
            /\ Goto(t, "load_assign")
            /\ UNCHANGED <<lock, call, data>>
    /\ UNCHANGED <<cache, heap, file, last, hist, corpus, srch, calc, mix>>

\* _load: `_cache = ...`, a new dict object
LoadAssign(t) ==
    /\ pc[t] = "load_assign"
    /\ heap' = Append(heap, rd[t])
    /\ cache' = Len(heap) + 1
    /\ Goto(t, "load_ret")
    /\ UNCHANGED <<file, last, lock, call, data, rd, hist, corpus, srch, calc, mix>>

\* _load: `return _cache`, taken by the caller as `data`
LoadRet(t) ==
    /\ pc[t] = "load_ret"
    /\ data' = [data EXCEPT ![t] = cache]
    /\ Goto(t, IF call[t].op \in Mutators THEN "modify" ELSE "get")
    /\ UNCHANGED <<cache, heap, file, last, lock, call, rd, hist, corpus, srch, calc, mix>>

\* the body of the mutation on the dict object `data`, up to _save or to the
\* `return False` of remove_alias
Modify(t) ==
    /\ pc[t] = "modify"
    /\ LET r == Body(call[t], heap[data[t]]) IN
          /\ heap' = [heap EXCEPT ![data[t]] = r.map]
          /\ hist' = [hist EXCEPT !.pre = heap[data[t]], !.post = r.map]
          /\ Goto(t, IF r.saves THEN "save_open" ELSE "release")
    /\ UNCHANGED <<cache, file, last, lock, call, data, rd, corpus, srch, calc, mix>>

\* _save: open(_ALIAS_PATH, "w") creates the file or truncates it
SaveOpen(t) ==
    /\ pc[t] = "save_open"
    /\ file' = TornFile
    /\ Goto(t, "save_write")
    /\ UNCHANGED <<cache, heap, last, lock, call, data, rd, hist, corpus, srch, calc, mix>>

\* _save: json.dump of the dict, and the file closed
SaveWrite(t) ==
    /\ pc[t] = "save_write"
    /\ file' = OkFile(heap[data[t]])
    /\ hist' = [hist EXCEPT !.wrote = TRUE]
    /\ Goto(t, "release")
    /\ UNCHANGED <<cache, heap, last, lock, call, data, rd, corpus, srch, calc, mix>>

\* `with _lock:` left, and the mutation returns
Release(t) ==
    /\ pc[t] = "release"
    /\ lock' = 0
    /\ hist' = [hist EXCEPT !.pre = hist.post]
    /\ Finish(t)
    /\ UNCHANGED <<cache, heap, file, last, corpus, srch, calc, mix>>

\* resolve_alias: `.get(_norm(q_norm))` on the dict _load returned, and the return
Get(t) ==
    /\ pc[t] = "get"
    /\ Finish(t)
    /\ UNCHANGED <<cache, heap, file, last, lock, hist, corpus, srch, calc, mix>>

\* the process stops at any point and is started again: the threads, the lock
\* and the cache are gone, the file is what it was
Crash ==
    /\ ~hist.crashed
    /\ \E t \in Threads : ~Idle(t)
    /\ cache' = 0
    /\ heap' = <<>>
    /\ lock' = 0
    /\ pc' = [t \in Threads |-> "idle"]
    /\ call' = [t \in Threads |-> NoCall]
    /\ data' = [t \in Threads |-> 0]
    /\ rd' = [t \in Threads |-> EmptyMap]
    /\ hist' = [hist EXCEPT !.crashed = TRUE]
    /\ UNCHANGED <<file, last, corpus, srch, calc, mix>>

InitThreads ==
    /\ cache = 0
    /\ heap = <<>>
    /\ file \in InitialFiles
    /\ last = NoLast
    /\ lock = 0
    /\ pc = [t \in Threads |-> "idle"]
    /\ call = [t \in Threads |-> NoCall]
    /\ data = [t \in Threads |-> 0]
    /\ rd = [t \in Threads |-> EmptyMap]
    /\ hist = [NoHist EXCEPT !.init = FileMap(file), !.pre = FileMap(file),
                             !.post = FileMap(file)]
    /\ corpus = {}
    /\ srch = NoSearch
    /\ calc = NoCalc
    /\ mix = NoMix

MutationStep(t) ==
    \/ CallMutation(t)
    \/ Acquire(t)
    \/ LoadCheck(t)
    \/ LoadRead(t)
    \/ LoadAssign(t)
    \/ LoadRet(t)
    \/ Modify(t)
    \/ SaveOpen(t)
    \/ SaveWrite(t)
    \/ Release(t)

\* only mutations are called
NextMut == \E t \in Threads : MutationStep(t)

SpecMut == InitThreads /\ [][NextMut]_vars

\* mutations and reads are called
NextRace == \E t \in Threads : MutationStep(t) \/ CallResolve(t) \/ Get(t)

SpecRace == InitThreads /\ [][NextRace]_vars

\* mutations are called and the process may stop
NextCrash == (\E t \in Threads : MutationStep(t)) \/ Crash

SpecCrash == InitThreads /\ [][NextCrash]_vars

-----------------------------------------------------------------------------
(* Claims about several threads *)

\* what a call does to the map when it runs alone
ApplyCall(c, d) ==
    IF c.op \in Mutators /\ ~EarlyReturn(c) THEN Body(c, d).map ELSE d

\* the maps that running the calls of bag b one after the other, in any order,
\* can leave, starting from map d
RECURSIVE SerialResults(_, _)
SerialResults(d, b) ==
    IF DOMAIN b = {} THEN {d}
    ELSE UNION {SerialResults(ApplyCall(c, d), BagDel(b, c)) : c \in DOMAIN b}

\* C2: when the threads call only mutations, then once all have returned the
\* in-memory map and the persisted map both equal the result of running the
\* calls made in some serial order: no update is lost.
C2_SerialOutcome ==
    AllIdle =>
        \E r \in SerialResults(hist.init, hist.calls) :
            /\ Loaded = r
            /\ file.st # "torn"
            /\ FileMap(file) = r

\* all calls have returned, one of them was made while another held the lock,
\* and their order matters
C2_Witness ==
    /\ AllIdle
    /\ hist.overlap
    /\ hist.wrote
    /\ Cardinality(SerialResults(hist.init, hist.calls)) > 1

ReadCalled == \E c \in DOMAIN hist.calls : c.op = "resolve_alias"

\* C3: when a first read races with mutations, then once all calls have returned
\* (one of them a mutation that saved) the cache holds the effect of the
\* mutations and equals the persisted map, and the persisted map has lost none of
\* them: both equal the result of the mutations in some serial order.
C3_FirstReadRace ==
    (AllIdle /\ ReadCalled /\ hist.wrote) =>
        \E r \in SerialResults(hist.init, hist.calls) :
            /\ cache # 0
            /\ heap[cache] = r
            /\ file = OkFile(r)

NoMutationInProgress == \A t \in Threads : call[t].op \notin Mutators

\* C4: whenever no mutation is in progress and a mutation that saved has
\* returned, the persisted map equals the in-memory cache.
C4_WriteThrough ==
    (NoMutationInProgress /\ hist.wrote) =>
        /\ cache # 0
        /\ file = OkFile(heap[cache])

\* C5: when the process stops at any point of a mutation, the file found
\* afterwards holds the map before that mutation or the map after it.
C5_CrashLosesAtMostOne ==
    hist.crashed =>
        /\ file.st # "torn"
        /\ FileMap(file) \in {hist.pre, hist.post}

-----------------------------------------------------------------------------
(* Claims about one caller of db/aliases.py, checked under SpecSeq *)

\* the trimmed, lowercased non-blank elements of a list of aliases
NormSet(l) == {Norm(l[i]) : i \in {j \in 1..Len(l) : ~Blank(l[j])}}

AfterCall(op) == last.active /\ last.call.op = op /\ last.ret # RetRaise

\* C6: set_aliases is idempotent: in the state set_aliases(M, L) has just left,
\* running set_aliases(M, L) once more leaves the in-memory map and the persisted
\* map as they are, and no alias outside L is left pointing at M (no orphan; a
\* dict holds no duplicate key).
C6_SetAliasesIdempotent ==
    AfterCall("set_aliases") =>
        LET again == Body(last.call, Loaded) IN
        /\ again.map = Loaded
        /\ again.saves /\ OkFile(again.map) = file
        /\ KeysOf(Loaded, Strip(last.call.m)) \subseteq NormSet(last.call.l)

\* set_aliases has replaced a non-empty alias set of M by another one, next to
\* an alias of another material
C6_Witness ==
    /\ AfterCall("set_aliases")
    /\ NormSet(last.call.l) # {}
    /\ KeysOf(last.before, Strip(last.call.m)) \ NormSet(last.call.l) # {}
    /\ \E k \in DOMAIN Loaded : Loaded[k] # Strip(last.call.m)

\* the result the strategies of resolve_alias give in their order for trimmed
\* query qs, dict d and list known, an alias-map entry that holds the empty name
\* counting as a hit only if emptyCounts
StrategyResult(d, qs, known, emptyCounts) ==
    LET names == IF known = NoList THEN <<>> ELSE known
        same == {i \in 1..Len(names) : Upper(names[i]) = Upper(qs)}
        near == {i \in 1..Len(names) :
                    \/ Contains(Upper(names[i]), Upper(qs))
                    \/ Contains(Upper(qs), Upper(names[i]))}
    IN  IF Lower(qs) \in DOMAIN d /\ (emptyCounts \/ d[Lower(qs)] # <<>>)
        THEN d[Lower(qs)]
        ELSE IF same # {} THEN names[CHOOSE i \in same : \A j \in same : i <= j]
        ELSE IF near # {} THEN names[CHOOSE i \in near : \A j \in near : i <= j]
        ELSE None

NamedEntry(d, key) == key \in DOMAIN d /\ d[key] # <<>>

C10_RemoveAlias ==
    AfterCall("remove_alias") =>
        LET al == Norm(last.call.a)
            deleted == al \in DOMAIN last.before /\ al \notin DOMAIN Loaded
        IN  /\ last.ret.k = "bool"
            /\ last.ret.b <=> deleted
            /\ deleted => /\ ~Blank(last.call.a)
                          /\ last.call.m # None => last.before[al] = Strip(last.call.m)
                          /\ Loaded = Del(last.before, al)
                          /\ file = OkFile(Loaded)
            /\ ~last.ret.b => Loaded = last.before /\ file = last.fileBefore

\* remove_alias was given a material the present alias does not map to, and
\* returned False
C10_Witness ==
    /\ AfterCall("remove_alias")
    /\ Norm(last.call.a) \in DOMAIN last.before
    /\ last.call.m # None
    /\ last.before[Norm(last.call.a)] # Strip(last.call.m)
    /\ ~last.ret.b

\* C11: after set_aliases(M, L), M taken trimmed as the code stores it, the
\* aliases mapped to M are exactly the trimmed, lowercased non-blank elements
\* of L, and every alias that was mapped to another material and is not
\* among them keeps its mapping.
C11_SetAliasesFrame ==
    AfterCall("set_aliases") =>
        LET m == Strip(last.call.m)
            new == NormSet(last.call.l)
        IN  /\ KeysOf(Loaded, m) = new
            /\ \A k \in DOMAIN last.before :
                   (last.before[k] # m /\ k \notin new) =>
                       k \in DOMAIN Loaded /\ Loaded[k] = last.before[k]

\* set_aliases dropped an alias of M, took over an alias of another material
\* and left a third alias with its material
C11_Witness ==
    /\ AfterCall("set_aliases")
    /\ KeysOf(last.before, Strip(last.call.m)) \ NormSet(last.call.l) # {}
    /\ \E k \in NormSet(last.call.l) :
           k \in DOMAIN last.before /\ last.before[k] # Strip(last.call.m)
    /\ \E k \in DOMAIN last.before \ NormSet(last.call.l) :
           last.before[k] # Strip(last.call.m)

\* the last call wrote alias a for material m
Wrote(a, m) ==
    ~Blank(a) =>
        /\ Lower(Strip(a)) \in DOMAIN Loaded
        /\ Loaded[Lower(Strip(a))] = Strip(m)

\* C12: after any sequence of mutations every key of the alias map, in memory
\* and on disk, is trimmed and lowercase (and so maps to one material), and an
\* alias added or moved maps to the material (trimmed) of that most recent
\* write, whatever it mapped to before.
C12_KeysNormalized ==
    /\ ~LoadRaises =>
           \A k \in DOMAIN Loaded \cup DOMAIN FileMap(file) : k = Lower(Strip(k))
    /\ (AfterCall("add_alias") \/ AfterCall("move_alias")) =>
           Wrote(last.call.a, last.call.m)
    /\ AfterCall("add_aliases") =>
           \A i \in 1..Len(last.call.l) : Wrote(last.call.l[i], last.call.m)

\* add_alias was given an alias to be trimmed and lowercased that mapped to
\* another material before
C12_Witness ==
    /\ AfterCall("add_alias")
    /\ last.call.a # Lower(Strip(last.call.a))
    /\ Lower(Strip(last.call.a)) \in DOMAIN last.before
    /\ last.before[Lower(Strip(last.call.a))] # Strip(last.call.m)
    /\ Loaded[Lower(Strip(last.call.a))] = Strip(last.call.m)

-----------------------------------------------------------------------------
(* db/query.py and agent/agent_tools/retriever.py: the pure part *)

\* re: \b between s[i] and s[i + 1], for i in 0..Len(s)
WordBoundary(s, i) ==
    (i >= 1 /\ IsWordChar(s[i])) # (i < Len(s) /\ IsWordChar(s[i + 1]))

AllDigits(s, a, b) == \A j \in a..b : IsDigit(s[j])

\* CAS_RE = \b\d{2,7}-\d{2}-\d\b matches s from position i on with n leading digits
CasMatchAt(s, i, n) ==
    /\ i + n + 4 <= Len(s)
    /\ WordBoundary(s, i - 1)
    /\ AllDigits(s, i, i + n - 1)
    /\ s[i + n] = "-"
    /\ AllDigits(s, i + n + 1, i + n + 2)
    /\ s[i + n + 3] = "-"
    /\ IsDigit(s[i + n + 4])
    /\ WordBoundary(s, i + n + 4)

\* CAS_RE.search(s): m.group(0) of the leftmost match, or None
CasSearch(s) ==
    LET starts == {i \in 1..Len(s) : \E n \in 2..7 : CasMatchAt(s, i, n)} IN
    IF starts = {} THEN None
    ELSE LET i == First(starts)
             n == CHOOSE m \in 2..7 : CasMatchAt(s, i, m)
         IN  SubSeq(s, i, i + n + 4)

\* the section tags of the index
FirstAid == <<"f", "i", "r", "s", "t", "_", "a", "i", "d">>
SpillResponse == <<"s", "p", "i", "l", "l", "_", "r", "e", "s", "p", "o", "n", "s", "e">>
FireFighting == <<"f", "i", "r", "e", "_", "f", "i", "g", "h", "t", "i", "n", "g">>
OtherTag == <<"o", "t", "h", "e", "r">>

\* SECTION_HINTS: the alternatives of each pattern (clean[-\s]?up written out)
FirstAidWords ==
    {<<"f", "i", "r", "s", "t", " ", "a", "i", "d">>, <<"b", "u", "r", "n">>,
     <<"s", "p", "l", "a", "s", "h">>, <<"e", "x", "p", "o", "s", "u", "r", "e">>,
     <<"r", "i", "n", "s", "e">>, <<"f", "l", "u", "s", "h">>, <<"w", "a", "s", "h">>,
     <<"i", "n", "g", "e", "s", "t", "i", "o", "n">>,
     <<"i", "n", "h", "a", "l", "a", "t", "i", "o", "n">>, <<"e", "y", "e">>,
     <<"s", "k", "i", "n">>}

SpillWords ==
    {<<"s", "p", "i", "l", "l">>, <<"l", "e", "a", "k">>,
     <<"a", "c", "c", "i", "d", "e", "n", "t", "a", "l", " ", "r", "e", "l", "e", "a", "s", "e">>,
     <<"c", "o", "n", "t", "a", "i", "n">>, <<"a", "b", "s", "o", "r", "b">>,
     <<"n", "e", "u", "t", "r", "a", "l", "i", "z", "e">>,
     <<"c", "l", "e", "a", "n", "u", "p">>, <<"c", "l", "e", "a", "n", "-", "u", "p">>,
     <<"c", "l", "e", "a", "n", " ", "u", "p">>,
     <<"c", "l", "e", "a", "n", "\n", "u", "p">>}

FireWords ==
    {<<"f", "i", "r", "e">>, <<"f", "l", "a", "m", "e">>,
     <<"e", "x", "t", "i", "n", "g", "u", "i", "s", "h">>,
     <<"c", "o", "m", "b", "u", "s", "t", "i", "b", "l", "e">>,
     <<"i", "g", "n", "i", "t", "i", "o", "n">>}

SECTION_HINTS ==
    <<[words |-> FirstAidWords, tag |-> FirstAid],
      [words |-> SpillWords, tag |-> SpillResponse],
      [words |-> FireWords, tag |-> FireFighting]>>

\* re.compile(r"\b(w1|w2|...)\b", re.I).search(s)
HintSearch(words, s) ==
    \E w \in words : \E i \in 1..Len(s) :
        /\ i + Len(w) - 1 <= Len(s)
        /\ WordBoundary(s, i - 1)
        /\ WordBoundary(s, i + Len(w) - 1)
        /\ \A j \in 1..Len(w) : LowerChar(s[i + j - 1]) = w[j]

\* an _infer_tag that goes through the rules to the end
InferTag_LastMatch(question) ==
    LET q == IF question = None THEN <<>> ELSE question
        hits == {i \in 1..Len(SECTION_HINTS) : HintSearch(SECTION_HINTS[i].words, q)}
    IN  IF hits = {} THEN None
        ELSE SECTION_HINTS[CHOOSE i \in hits : \A j \in hits : j <= i].tag

\* _infer_tag
InferTag(question) ==
    LET q == IF question = None THEN <<>> ELSE question
        hits == {i \in 1..Len(SECTION_HINTS) : HintSearch(SECTION_HINTS[i].words, q)}
    IN  IF hits = {} THEN None ELSE SECTION_HINTS[First(hits)].tag

\* A filter dict maps metadata keys to values; None and {} are both the empty
\* function (the code tests them with `if base_filter` and `if not flt`).
NoFilter == [key \in {} |-> <<>>]
Filter1(key, v) == [x \in {key} |-> v]

\* an _as_chroma_where that loses the conditions of the filter
AsChromaWhere_Empty(flt) == {}

\* _as_chroma_where: the equality conditions of the filter, all of which must
\* hold ({k: {"$eq": v}}, or {"$and": [...]} of them); the empty set for None
AsChromaWhere(flt) == {<<key, flt[key]>> : key \in DOMAIN flt}

\* Chroma's metadata filter: every condition holds of the chunk's metadata
Matches(chunk, where) == \A c \in where : chunk[c[1]] = c[2]

\* every list of n distinct elements of S
Arrangements(S, n) == {l \in [1..n -> S] : \A i, j \in 1..n : l[i] = l[j] => i = j}

Min(a, b) == IF a <= b THEN a ELSE b

\* vdb.similarity_search(query, k, filter): the k nearest chunks among those the
\* filter admits, nearest first; which are nearest is left open
SimilaritySearch(k, where) ==
    LET ok == {c \in corpus : Matches(c, where)} IN
    Arrangements(ok, Min(k, Cardinality(ok)))

\* _material_names raises: the collection cannot be read (srch.names_raise holds
\* it for the call that is starting or has just returned)
NamesRaise == srch.names_raise

\* _material_names
MaterialNames ==
    SortedStrs({c.material_name : c \in {x \in corpus : Truthy(x.material_name)}})

\* an alias resolution whose failures are not caught: it goes on with the names
\* of the corpus and the aliases of the file
ResolvedMaterial_Uncaught(query) ==
    IF MaterialNames = <<>> THEN None
    ELSE ResolveAlias(Loaded, query, MaterialNames)

\* `resolve_alias(query, names) if names else None` inside try/except: None when
\* _material_names raises, when there is no name, and when _load raises
ResolvedMaterial(query) ==
    IF NamesRaise THEN None
    ELSE IF MaterialNames = <<>> THEN None
    ELSE IF ~Blank(query) /\ LoadRaises THEN None
    ELSE ResolveAlias(Loaded, query, MaterialNames)

\* whether resolve_alias gets as far as _load during a search of `query`
\* without a strict filter from the lock or a CAS number
LoadsAliases(query, locked_material) ==
    /\ ~(locked_material # None /\ Truthy(locked_material))
    /\ CasSearch(query) = None
    /\ ~NamesRaise
    /\ MaterialNames # <<>>
    /\ ~Blank(query)
    /\ ~LoadRaises

\* a _strict_filter_from_query that tries the alias before the CAS number
StrictFilter_AliasFirst(query, locked_material) ==
    IF locked_material # None /\ Truthy(locked_material)
    THEN Filter1("material_name", locked_material)
    ELSE IF ResolvedMaterial(query) # None /\ Truthy(ResolvedMaterial(query))
    THEN Filter1("material_name", ResolvedMaterial(query))
    ELSE IF CasSearch(query) # None
    THEN Filter1("cas", CasSearch(query))
    ELSE NoFilter

\* _strict_filter_from_query
StrictFilterFromQuery(query, locked_material) ==
    IF locked_material # None /\ Truthy(locked_material)
    THEN Filter1("material_name", locked_material)
    ELSE IF CasSearch(query) # None
    THEN Filter1("cas", CasSearch(query))
    ELSE IF ResolvedMaterial(query) # None /\ Truthy(ResolvedMaterial(query))
    THEN Filter1("material_name", ResolvedMaterial(query))
    ELSE NoFilter

\* re.findall(r"[a-z]{2,}", s): the maximal runs of two or more lowercase letters
Tokens(s) ==
    LET starts == {i \in 1..Len(s) : IsLower(s[i]) /\ (i = 1 \/ ~IsLower(s[i - 1]))}
        end(i) == CHOOSE j \in i..Len(s) :
                      /\ j = Len(s) \/ ~IsLower(s[j + 1])
                      /\ \A x \in i..j : IsLower(s[x])
    IN  {SubSeq(s, i, end(i)) : i \in {x \in starts : end(x) > x}}

\* " ".join(values)
RECURSIVE Join(_)
Join(l) ==
    IF l = <<>> THEN <<>>
    ELSE IF Len(l) = 1 THEN l[1]
    ELSE l[1] \o <<" ">> \o Join(Tail(l))

\* _rerank_by_terms: f"{text}\n{md}".lower(), md the metadata values joined (a
\* chunk without a CAS number has no cas entry)
DocText(d) ==
    Lower(d.text) \o <<"\n">> \o
    Lower(Join(<<d.material_name, d.section_tag>> \o
               (IF d.cas = None THEN <<>> ELSE <<d.cas>>)))

\* _rerank_by_terms: twice the score of chunk d (so that 1.5 is a whole number)
Score2(d, pos, neg, pos_terms, resolved_material) ==
    LET t == DocText(d) IN
          (IF /\ resolved_material # None
              /\ Truthy(resolved_material)
              /\ d.material_name = resolved_material THEN 20 ELSE 0)
        + (IF \E i \in 1..Len(pos_terms) : pos_terms[i] = d.section_tag THEN 4 ELSE 0)
        + 4 * Cardinality({w \in pos : Contains(t, w)})
        - 3 * Cardinality({w \in neg : Contains(t, w)})

\* _rerank_by_terms: the loop `for d in docs`, which appends the score of each
\* chunk in turn
RECURSIVE Scores2(_, _, _, _, _)
Scores2(docs, pos, neg, pos_terms, resolved_material) ==
    IF docs = <<>> THEN <<>>
    ELSE <<Score2(Head(docs), pos, neg, pos_terms, resolved_material)>> \o
         Scores2(Tail(docs), pos, neg, pos_terms, resolved_material)

\* a sort that leaves the list as it is
SortedByScore_Unsorted(docs, sc) == docs

\* list.sort(key=score, reverse=True), which is stable: the place of element i
\* is after the elements of higher score and the earlier ones of equal score
SortedByScore(docs, sc) ==
    LET n == Len(docs)
        place == [i \in 1..n |->
                     1 + Cardinality({j \in 1..n :
                             sc[j] > sc[i] \/ (sc[j] = sc[i] /\ j < i)})]
    IN  [p \in 1..n |-> docs[CHOOSE i \in 1..n : place[i] = p]]

\* _rerank_by_terms
RerankByTerms(query, docs, pos_terms, neg_terms) ==
    LET pos == {Lower(pos_terms[i]) : i \in 1..Len(pos_terms)} \cup Tokens(Lower(query))
        neg == {Lower(neg_terms[i]) : i \in 1..Len(neg_terms)}
        resolved_material == ResolvedMaterial(query)
    IN  SortedByScore(docs, Scores2(docs, pos, neg, pos_terms, resolved_material))

\* one call of vdb.similarity_search, as the trace records it
Searched(k, where) == [k |-> k, where |-> where]

\* What a search function returns and what it did: the chunks, the base filter
\* _strict_filter_from_query gave, the calls of vdb.similarity_search in order,
\* and whether the chunks went through _rerank_by_terms
Outcome(docs, base, searches, reranked) ==
    [docs |-> docs, filter |-> base, searches |-> searches, reranked |-> reranked,
     raw |-> docs, pos_terms |-> <<>>]

\* the outcome of a search without a strict filter: the chunks raw of its last
\* similarity search, passed through _rerank_by_terms
Ranked(query, raw, pos_terms, searches) ==
    [Outcome(RerankByTerms(query, raw, pos_terms, <<>>), NoFilter, searches, TRUE)
        EXCEPT !.raw = raw, !.pos_terms = pos_terms]

\* stages without a strict filter that stop after the search filtered by tag
RelaxedStages_NoFallback(query, k, tag_filter, pos_terms) ==
    {Ranked(query, docs, pos_terms, <<Searched(k * 2, AsChromaWhere(tag_filter))>>) :
        docs \in SimilaritySearch(k * 2, AsChromaWhere(tag_filter))}

\* the two stages without a strict filter: filtered by tag_filter only, then
\* unfiltered if that gave nothing, then reranked
RelaxedStages(query, k, tag_filter, pos_terms) ==
    LET w == AsChromaWhere(tag_filter) IN
    UNION {IF docs # <<>>
           THEN {Ranked(query, docs, pos_terms, <<Searched(k * 2, w)>>)}
           ELSE {Ranked(query, docs2, pos_terms,
                        <<Searched(k * 2, w), Searched(k * 2, {})>>) :
                     docs2 \in SimilaritySearch(k * 2, {})} :
           docs \in SimilaritySearch(k * 2, w)}

\* a smart_search that goes on to the relaxed stages when the search under the
\* strict filter found nothing
SmartSearch_FallsBack(query, k, locked_material, tag) ==
    LET base_filter == StrictFilterFromQuery(query, locked_material)
        tagged == tag # None /\ Truthy(tag)
        flt == IF tagged /\ base_filter # NoFilter
               THEN Put(base_filter, "section_tag", tag) ELSE base_filter
        relaxed == RelaxedStages(query, k,
                                 IF tagged THEN Filter1("section_tag", tag) ELSE NoFilter,
                                 IF tagged THEN <<tag>> ELSE <<>>)
    IN  IF base_filter # NoFilter
        THEN UNION {IF docs # <<>>
                    THEN {Outcome(docs, base_filter, <<Searched(k, AsChromaWhere(flt))>>,
                                  FALSE)}
                    ELSE relaxed :
                    docs \in SimilaritySearch(k, AsChromaWhere(flt))}
        ELSE relaxed

\* smart_search: every outcome it can have in the current state
SmartSearch(query, k, locked_material, tag) ==
    LET base_filter == StrictFilterFromQuery(query, locked_material)
        tagged == tag # None /\ Truthy(tag)
    IN  IF base_filter # NoFilter
        THEN LET flt == IF tagged THEN Put(base_filter, "section_tag", tag)
                        ELSE base_filter
             IN  {Outcome(docs, base_filter, <<Searched(k, AsChromaWhere(flt))>>, FALSE) :
                     docs \in SimilaritySearch(k, AsChromaWhere(flt))}
        ELSE RelaxedStages(query, k,
                           IF tagged THEN Filter1("section_tag", tag) ELSE NoFilter,
                           IF tagged THEN <<tag>> ELSE <<>>)

\* smart_first_aid_search: every outcome it can have in the current state
SmartFirstAidSearch(query, k, locked_material) ==
    LET base_filter == StrictFilterFromQuery(query, locked_material) IN
    IF base_filter # NoFilter
    THEN LET flt == [key \in {"section_tag"} \cup DOMAIN base_filter |->
                        IF key \in DOMAIN base_filter THEN base_filter[key]
                        ELSE FirstAid]
         IN  {Outcome(docs, base_filter, <<Searched(k, AsChromaWhere(flt))>>, FALSE) :
                 docs \in SimilaritySearch(k, AsChromaWhere(flt))}
    ELSE RelaxedStages(query, k, Filter1("section_tag", FirstAid), <<<<"f", "i", "r", "s", "t", " ", "a", "i", "d">>>>)

\* sds_retriever: the dict it builds of each chunk
ResultDict(d) == [text |-> d.text, material |-> d.material_name, tag |-> d.section_tag]

ResultDicts(docs) == [i \in 1..Len(docs) |-> ResultDict(docs[i])]

\* sds_retriever passes k=8
RetrieverK == 8

\* one call of smart_search by sds_retriever, as the trace records it
Called(locked_material, tag, o) ==
    [locked_material |-> locked_material, tag |-> tag, found |-> Len(o.docs),
     searches |-> o.searches]

\* an sds_retriever whose retry drops the material lock with the tag
SdsRetriever_LockDropped(query, material_name) ==
    LET tag == InferTag(query) IN
    UNION {IF ~(o.docs = <<>> /\ tag # None /\ Truthy(tag))
           THEN {[results |-> ResultDicts(o.docs),
                  calls |-> <<Called(material_name, tag, o)>>]}
           ELSE {[results |-> ResultDicts(o2.docs),
                  calls |-> <<Called(material_name, tag, o), Called(None, None, o2)>>] :
                     o2 \in SmartSearch(query, RetrieverK, None, None)} :
           o \in SmartSearch(query, RetrieverK, material_name, tag)}

\* sds_retriever: every outcome it can have in the current state: the dicts it
\* returns and its calls of smart_search in order
SdsRetriever(query, material_name) ==
    LET tag == InferTag(query) IN
    UNION {IF ~(o.docs = <<>> /\ tag # None /\ Truthy(tag))
           THEN {[results |-> ResultDicts(o.docs),
                  calls |-> <<Called(material_name, tag, o)>>]}
           ELSE {[results |-> ResultDicts(o2.docs),
                  calls |-> <<Called(material_name, tag, o), Called(material_name, None, o2)>>] :
                     o2 \in SmartSearch(query, RetrieverK, material_name, None)} :
           o \in SmartSearch(query, RetrieverK, material_name, tag)}

-----------------------------------------------------------------------------
(* agent/agent_tools/calculator.py: the pure part *)

\* Numbers are exact fractions <<n, d>> in lowest terms, d > 0: the arithmetic
\* of the calculator without the rounding of float.
Abs(n) == IF n < 0 THEN -n ELSE n

RECURSIVE Gcd(_, _)
Gcd(a, b) == IF b = 0 THEN a ELSE Gcd(b, a % b)

Frac(n, d) ==
    LET g == Gcd(Abs(n), Abs(d)) IN
    IF d < 0 THEN <<(-n) \div g, (-d) \div g>> ELSE <<n \div g, d \div g>>

Whole(n) == <<n, 1>>
Zero == Whole(0)

\* a * b, dividing out common factors before multiplying
Times(a, b) ==
    LET g1 == Gcd(Abs(a[1]), b[2])
        g2 == Gcd(Abs(b[1]), a[2])
    IN  <<(a[1] \div g1) * (b[1] \div g2), (a[2] \div g2) * (b[2] \div g1)>>

\* a / b for b # 0
Over(a, b) == Times(a, IF b[1] < 0 THEN <<-b[2], -b[1]>> ELSE <<b[2], b[1]>>)

\* What a function gives: a number with a unit or a key (Gives), or an
\* exception of class exc with message msg (Raises)
Gives(val, unit) == [ok |-> TRUE, val |-> val, unit |-> unit, exc |-> "", msg |-> ""]
Raises(exc, msg) == [ok |-> FALSE, val |-> Zero, unit |-> <<>>, exc |-> exc, msg |-> msg]

\* An entry of an item: missing (no such key), None, or a number
Missing == <<0, 0, 1>>
Null == <<1, 0, 1>>
Number(x) == <<2, x[1], x[2]>>
NumberOf(f) == <<f[2], f[3]>>

\* float(it[key]): KeyError without the key, TypeError for None
Float(f, key) ==
    IF f = Missing THEN Raises("KeyError", key)
    ELSE IF f = Null THEN Raises("TypeError", "float() argument must be a string or a real number")
    ELSE Gives(NumberOf(f), <<>>)

\* it[key] for a unit: KeyError without the key
Lookup(u, key) == IF u = None THEN Raises("KeyError", key) ELSE Gives(Zero, u)

\* the units, as the strings of the code
UnitM == <<"M">>
UnitmM == <<"m", "M">>
UnituM == <<"u", "M">>
UnitGL == <<"g", "/", "L">>
UnitMgMl == <<"m", "g", "/", "m", "L">>
UnitPercent == <<"%">>
UnitG100 == <<"g", "/", "1", "0", "0", "m", "L">>
\* the three characters the code replaces by "uM": U+00C2, U+00B5, M
UnitMojibake == <<"U+00C2", "U+00B5", "M">>

\* UNIT_CONVERSIONS, for the units _convert_to_base_units multiplies by it
UNIT_CONVERSIONS(unit) ==
    IF unit = UnitM THEN Whole(1)
    ELSE IF unit = UnitmM THEN Frac(1, 1000)
    ELSE Frac(1, 1000000)

\* str.replace(old, new)
RECURSIVE Replace(_, _, _)
Replace(s, old, new) ==
    IF Len(s) < Len(old) THEN s
    ELSE IF SubSeq(s, 1, Len(old)) = old
    THEN new \o Replace(SubSeq(s, Len(old) + 1, Len(s)), old, new)
    ELSE <<Head(s)>> \o Replace(Tail(s), old, new)

\* _convert_to_base_units
ConvertToBaseUnits(val, unit0) ==
    LET unit == Replace(Strip(unit0), UnitMojibake, UnituM) IN
    IF unit \in {UnitM, UnitmM, UnituM} THEN Gives(Times(val, UNIT_CONVERSIONS(unit)), UnitM)
    ELSE IF unit \in {UnitGL, UnitMgMl} THEN Gives(val, UnitMgMl)
    ELSE IF unit = UnitPercent THEN Gives(val, UnitG100)
    ELSE Raises("ValueError", "Unsupported unit")

CalculateVolumeToAdd_NoVolume(stock_conc, stock_unit, final_conc, final_unit, final_vol, molar_mass) ==
    LET s == ConvertToBaseUnits(stock_conc, stock_unit)
        f == ConvertToBaseUnits(final_conc, final_unit)
    IN  IF ~s.ok THEN s
        ELSE IF ~f.ok THEN f
        ELSE IF s.val = Zero THEN Raises("ValueError", "Stock concentration cannot be zero")
        ELSE Gives(Over(f.val, s.val), <<>>)

CalculateVolumeToAdd_SilentDefault(stock_conc, stock_unit, final_conc, final_unit, final_vol, molar_mass) ==
    LET s == ConvertToBaseUnits(stock_conc, stock_unit)
        f == ConvertToBaseUnits(final_conc, final_unit)
    IN  IF ~s.ok THEN s
        ELSE IF ~f.ok THEN f
        ELSE IF s.val = Zero THEN Raises("ValueError", "Stock concentration cannot be zero")
        ELSE Gives(Over(Times(f.val, final_vol), s.val), <<>>)

\* calculate_volume_to_add; molar_mass is a number or Null
CalculateVolumeToAdd(stock_conc, stock_unit, final_conc, final_unit, final_vol, molar_mass) ==
    LET s == ConvertToBaseUnits(stock_conc, stock_unit)
        f == ConvertToBaseUnits(final_conc, final_unit)
    IN  IF ~s.ok THEN s
        ELSE IF ~f.ok THEN f
        ELSE IF s.unit # f.unit /\ molar_mass = Null
        THEN Raises("ValueError", "Molar mass is required")
        ELSE IF s.unit # f.unit /\ f.unit = UnitMgMl /\ NumberOf(molar_mass) = Zero
        THEN Raises("ZeroDivisionError", "float division by zero")
        ELSE LET f_val == IF s.unit # f.unit /\ f.unit = UnitMgMl
                          THEN Times(Over(Over(f.val, Whole(1000)), NumberOf(molar_mass)),
                                     Whole(1000))
                          ELSE f.val
             IN  IF s.val = Zero
                 THEN Raises("ValueError", "Stock concentration cannot be zero")
                 ELSE Gives(Over(Times(f_val, final_vol), s.val), <<>>)

\* calculate_mass_to_add
CalculateMassToAdd(final_conc, final_unit, final_vol, molar_mass) ==
    LET f == ConvertToBaseUnits(final_conc, final_unit) IN
    IF ~f.ok THEN f
    ELSE IF f.unit # UnitM
    THEN IF f.unit = UnitMgMl
         THEN Gives(Times(f.val, final_vol), <<>>)
         ELSE Raises("ValueError", "Mass calculation requires molarity or mass/volume")
    ELSE Gives(Times(Times(f.val, molar_mass), Over(final_vol, Whole(1000))), <<>>)

\* calculate_final_concentration_liquid
CalculateFinalConcentrationLiquid(stock_conc, stock_unit, added_vol, final_vol) ==
    LET s == ConvertToBaseUnits(stock_conc, stock_unit) IN
    IF ~s.ok THEN s
    ELSE IF final_vol = Zero THEN Raises("ZeroDivisionError", "float division by zero")
    ELSE Gives(Over(Times(s.val, added_vol), final_vol), s.unit)

\* calculate_final_concentration_powder
CalculateFinalConcentrationPowder(added_mass, final_vol, molar_mass) ==
    IF molar_mass = Zero THEN Raises("ValueError", "Molar mass cannot be zero")
    ELSE IF Over(final_vol, Whole(1000)) = Zero
    THEN Raises("ZeroDivisionError", "float division by zero")
    ELSE Gives(Over(Over(Over(added_mass, Whole(1000)), molar_mass),
                    Over(final_vol, Whole(1000))), UnitM)

\* get_molar_mass_from_pubchem: a number, or ValueError for every failure of
\* the request (timeout, status, malformed answer, unknown compound)
PubchemGives(x) == Gives(x, <<>>)
PubchemFails == Raises("ValueError", "Could not retrieve molar mass")

\* it.get("molar_mass"): None without the key
GetOrNone(f) == IF f = Missing THEN Null ELSE f

\* What one item of the payload does to out: an entry {key + unit: val} under
\* its name, nothing, or an exception that leaves _calc
Entry(key, r) ==
    IF r.ok
    THEN [kind |-> "entry", key |-> key, unit |-> r.unit, val |-> r.val,
          exc |-> "", msg |-> ""]
    ELSE [kind |-> "raise", key |-> "", unit |-> <<>>, val |-> Zero,
          exc |-> r.exc, msg |-> r.msg]

Nothing ==
    [kind |-> "none", key |-> "", unit |-> <<>>, val |-> Zero, exc |-> "", msg |-> ""]

\* the branch mode == "solve_add_vol"
SolveAddVol(it, final_vol) ==
    LET stock_conc == Float(it.stock_conc, "stock_conc")
        stock_unit == Lookup(it.stock_unit, "stock_unit")
        final_conc == Float(it.final_conc, "final_conc")
        final_unit == Lookup(it.final_unit, "final_unit")
    IN  IF ~stock_conc.ok THEN stock_conc
        ELSE IF ~stock_unit.ok THEN stock_unit
        ELSE IF ~final_conc.ok THEN final_conc
        ELSE IF ~final_unit.ok THEN final_unit
        ELSE CalculateVolumeToAdd(stock_conc.val, it.stock_unit, final_conc.val,
                                  it.final_unit, final_vol, GetOrNone(it.molar_mass))

\* the molar mass solve_add_mass uses: the looked-up one, and the item's own
\* only when the lookup raised
MolarMassUsed(it, pubchem) ==
    IF pubchem.ok THEN pubchem ELSE Float(it.molar_mass, "molar_mass")

\* the branch mode == "solve_add_mass"
SolveAddMass(it, final_vol, pubchem) ==
    LET molar_mass == MolarMassUsed(it, pubchem)
        final_conc == Float(it.final_conc, "final_conc")
        final_unit == Lookup(it.final_unit, "final_unit")
    IN  IF ~molar_mass.ok THEN molar_mass
        ELSE IF ~final_conc.ok THEN final_conc
        ELSE IF ~final_unit.ok THEN final_unit
        ELSE CalculateMassToAdd(final_conc.val, it.final_unit, final_vol, molar_mass.val)

\* the branch mode == "solve_final_conc", type "liquid"
SolveFinalConcLiquid(it, final_vol) ==
    LET stock_conc == Float(it.stock_conc, "stock_conc")
        stock_unit == Lookup(it.stock_unit, "stock_unit")
        added_ml == Float(it.added_ml, "added_ml")
    IN  IF ~stock_conc.ok THEN stock_conc
        ELSE IF ~stock_unit.ok THEN stock_unit
        ELSE IF ~added_ml.ok THEN added_ml
        ELSE CalculateFinalConcentrationLiquid(stock_conc.val, it.stock_unit,
                                               added_ml.val, final_vol)

\* the branch mode == "solve_final_conc", type "powder"
SolveFinalConcPowder(it, final_vol) ==
    LET added_mg == Float(it.added_mg, "added_mg")
        molar_mass == Float(it.molar_mass, "molar_mass")
    IN  IF ~added_mg.ok THEN added_mg
        ELSE IF ~molar_mass.ok THEN molar_mass
        ELSE CalculateFinalConcentrationPowder(added_mg.val, final_vol, molar_mass.val)

\* The body of the loop of _calc for one item.  mode and type are <<>> when the
\* item has no such key, else <<the string>>.
CalcItem(it, pubchem) ==
    LET final_ml == Float(it.final_ml, "final_ml") IN
    IF ~final_ml.ok THEN Entry("", final_ml)
    ELSE IF it.mode = <<"solve_add_vol">>
    THEN Entry("add_vol_ml", SolveAddVol(it, final_ml.val))
    ELSE IF it.mode = <<"solve_add_mass">>
    THEN Entry("mass_to_add_g", SolveAddMass(it, final_ml.val, pubchem))
    ELSE IF it.mode = <<"solve_final_conc">>
    THEN IF it.type = <<>> THEN Entry("", Raises("KeyError", "type"))
         ELSE IF it.type = <<"liquid">>
         THEN Entry("final_conc_", SolveFinalConcLiquid(it, final_ml.val))
         ELSE IF it.type = <<"powder">>
         THEN Entry("final_conc_", SolveFinalConcPowder(it, final_ml.val))
         ELSE Nothing
    ELSE Entry("", Raises("ValueError", "Unknown calculation mode"))

\* out, a dict from names to entries
EmptyOut == [n \in {} |-> Nothing]
OutPut(out, name, e) == [n \in DOMAIN out \cup {name} |-> IF n = name THEN e ELSE out[n]]

\* _calc from item i on: what it returns, or the exception of the first item
\* that raises and the position of that item
RECURSIVE CalcFrom(_, _, _, _)
CalcFrom(items, pubchem, i, out) ==
    IF i > Len(items)
    THEN [ok |-> TRUE, out |-> out, exc |-> "", msg |-> "", at |-> 0]
    ELSE LET e == CalcItem(items[i], pubchem[i]) IN
         IF e.kind = "raise"
         THEN [ok |-> FALSE, out |-> EmptyOut, exc |-> e.exc, msg |-> e.msg, at |-> i]
         ELSE CalcFrom(items, pubchem, i + 1,
                       IF e.kind = "entry" THEN OutPut(out, items[i].name, e) ELSE out)

\* _calc
Calc(items, pubchem) == CalcFrom(items, pubchem, 1, EmptyOut)

-----------------------------------------------------------------------------
(* db/query.py and agent/agent_tools/retriever.py: searches over a corpus *)

MaxChunks == 2
MaxK == 2

\* a chunk of the index: its text and the metadata the searches use
Chunk(material_name, section_tag, cas, text) ==
    [material_name |-> material_name, section_tag |-> section_tag, cas |-> cas,
     text |-> text]

HF == <<"H", "F">>
FBS == <<"F", "B", "S">>
Cas1 == <<"1", "2", "-", "3", "4", "-", "5">>

\* the chunks a corpus is drawn from; the ingestion form takes any text for the
\* material name, the empty text included
ChunkUniverse ==
    {Chunk(HF, FirstAid, Cas1, <<"r", "i", "n", "s", "e", " ", "e", "y", "e">>),
     Chunk(HF, OtherTag, None, <<"a", "c", "i", "d">>),
     Chunk(FBS, FirstAid, None, <<"w", "a", "s", "h", " ", "s", "k", "i", "n">>),
     Chunk(<<>>, OtherTag, None, <<"e", "y", "e">>)}

Corpora == {c \in SUBSET ChunkUniverse : Cardinality(c) <= MaxChunks}

SearchQueries ==
    {<<"h", "f">>, <<"h", "f", " ", "e", "y", "e">>, <<"1", "2", "-", "3", "4", "-", "5", " ", "h", "f">>,
     <<"e", "y", "e">>, <<"f", "i", "r", "e">>, <<>>}

\* queries of sds_retriever: those, and two that match the words of two rules
RetrieverQueries ==
    SearchQueries \cup {<<"e", "y", "e", " ", "f", "i", "r", "e">>,
                        <<"f", "i", "r", "e", " ", "L", "e", "a", "k">>}

LockedMaterials == {None, <<>>, HF, FBS, <<"h", "f">>}

SearchTags == {None, <<>>, FirstAid, FireFighting}

\* the alias file at the start: none yet, one alias, or a file cut short
SearchFiles == {AbsentFile, OkFile(Put(EmptyMap, <<"h", "f">>, HF)), TornFile}

\* the search returns: srch holds its arguments and what it did
SearchReturned(fn, query, k, locked_material, tag, o) ==
    srch' = [active |-> TRUE, fn |-> fn, query |-> query, k |-> k,
             locked_material |-> locked_material, tag |-> tag, docs |-> o.docs,
             filter |-> o.filter, searches |-> o.searches, reranked |-> o.reranked,
             raw |-> o.raw, pos_terms |-> o.pos_terms, neg_terms |-> <<>>,
             names_raise |-> srch.names_raise,
             results |-> <<>>, calls |-> <<>>]

\* `if locked_material:` of _strict_filter_from_query.  A call with a lock
\* returns its filter before _material_names is reached, and makes no call of
\* the reranker: a collection that fails is modelled for the calls without one.
HasLock(locked_material) == locked_material # None /\ Truthy(locked_material)

\* resolve_alias, when the search reaches it, leaves the alias map loaded
SearchLoads(query, locked_material) ==
    IF LoadsAliases(query, locked_material)
    THEN LoadAndStore(Loaded)
    ELSE UNCHANGED <<cache, heap>>

smart_search ==
    /\ ~srch.active
    /\ \E query \in SearchQueries, k \in 1..MaxK, locked_material \in LockedMaterials,
          tag \in SearchTags :
        /\ NamesRaise => ~HasLock(locked_material)
        /\ \E o \in SmartSearch(query, k, locked_material, tag) :
               SearchReturned("smart_search", query, k, locked_material, tag, o)
        /\ SearchLoads(query, locked_material)
        /\ UNCHANGED <<file, last, lock, pc, call, data, rd, hist, corpus, calc, mix>>

smart_first_aid_search ==
    /\ ~srch.active
    /\ \E query \in SearchQueries, k \in 1..MaxK, locked_material \in LockedMaterials :
        /\ NamesRaise => ~HasLock(locked_material)
        /\ \E o \in SmartFirstAidSearch(query, k, locked_material) :
               SearchReturned("smart_first_aid_search", query, k, locked_material,
                              FirstAid, o)
        /\ SearchLoads(query, locked_material)
        /\ UNCHANGED <<file, last, lock, pc, call, data, rd, hist, corpus, calc, mix>>

sds_retriever ==
    /\ ~srch.active
    /\ ~NamesRaise
    /\ \E query \in RetrieverQueries, material_name \in LockedMaterials \ {None} :
        /\ \E r \in SdsRetriever(query, material_name) :
               srch' = [active |-> TRUE, fn |-> "sds_retriever", query |-> query,
                        k |-> RetrieverK, locked_material |-> material_name,
                        tag |-> InferTag(query), docs |-> <<>>, filter |-> NoFilter,
                        searches |-> <<>>, reranked |-> FALSE, raw |-> <<>>,
                        pos_terms |-> <<>>, neg_terms |-> <<>>,
                        names_raise |-> srch.names_raise,
                        results |-> r.results, calls |-> r.calls]
        /\ SearchLoads(query, material_name)
        /\ UNCHANGED <<file, last, lock, pc, call, data, rd, hist, corpus, calc, mix>>

\* the terms a caller of _rerank_by_terms may give
RerankPosTerms == {<<FirstAid>>, <<<<"s", "k", "i", "n">>, OtherTag>>}

RerankNegTerms == {<<>>, <<<<"a", "c", "i", "d">>, <<"e", "y", "e">>>>}

\* the queries of those calls: one that resolves to a material, one that does
\* not
RerankQueries == {<<"h", "f">>, <<"e", "y", "e">>}

\* resolve_alias inside _rerank_by_terms, reached whenever the corpus names a
\* material, leaves the alias map loaded
RerankLoads(query) ==
    IF ~NamesRaise /\ MaterialNames # <<>> /\ ~Blank(query) /\ ~LoadRaises
    THEN LoadAndStore(Loaded)
    ELSE UNCHANGED <<cache, heap>>

\* _rerank_by_terms called on its own, on chunks of the corpus in any order
rerank_by_terms ==
    /\ ~srch.active
    /\ ~NamesRaise
    /\ \E query \in RerankQueries, n \in 0..MaxChunks, pos_terms \in RerankPosTerms,
          neg_terms \in RerankNegTerms :
        /\ n <= Cardinality(corpus)
        /\ \E docs \in Arrangements(corpus, n) :
               srch' = [active |-> TRUE, fn |-> "_rerank_by_terms", query |-> query,
                        k |-> 0, locked_material |-> None, tag |-> None,
                        docs |-> RerankByTerms(query, docs, pos_terms, neg_terms),
                        filter |-> NoFilter, searches |-> <<>>, reranked |-> TRUE,
                        raw |-> docs, pos_terms |-> pos_terms, neg_terms |-> neg_terms,
                        names_raise |-> srch.names_raise,
                        results |-> <<>>, calls |-> <<>>]
        /\ RerankLoads(query)
        /\ UNCHANGED <<file, last, lock, pc, call, data, rd, hist, corpus, calc, mix>>

\* the collection stops answering col.get: the next call finds that
\* _material_names raises
CollectionFails ==
    /\ ~srch.active
    /\ ~srch.names_raise
    /\ srch' = [NoSearch EXCEPT !.names_raise = TRUE]
    /\ UNCHANGED <<cache, heap, file, last, lock, pc, call, data, rd, hist, corpus, calc, mix>>

\* the caller takes the result; the next search may start
SearchReturn ==
    /\ srch.active
    /\ srch' = NoSearch
    /\ UNCHANGED <<cache, heap, file, last, lock, pc, call, data, rd, hist, corpus, calc, mix>>

InitSearch ==
    /\ cache = 0
    /\ heap = <<>>
    /\ file \in SearchFiles
    /\ last = NoLast
    /\ NoThreads
    /\ corpus \in Corpora
    /\ srch = NoSearch
    /\ calc = NoCalc
    /\ mix = NoMix

NextSearch ==
    \/ smart_search
    \/ smart_first_aid_search
    \/ sds_retriever
    \/ rerank_by_terms
    \/ CollectionFails
    \/ SearchReturn

SpecSearch == InitSearch /\ [][NextSearch]_vars

-----------------------------------------------------------------------------
(* Searches: the properties *)

\* a search function of db/query.py has just returned
SearchDone == srch.active /\ srch.fn \in {"smart_search", "smart_first_aid_search"}

\* the caller gave a material lock: a non-empty locked_material
Locked(m) == m # None /\ Truthy(m)

\* C1: smart_search and smart_first_aid_search with a non-empty locked_material M
\* return only chunks whose material_name is exactly M (or nothing): they make
\* one search, whose filter demands material_name = M, and neither the tag-only
\* nor the unfiltered stage runs.
C1_LockInvariance ==
    (SearchDone /\ Locked(srch.locked_material)) =>
        /\ \A i \in 1..Len(srch.docs) : srch.docs[i].material_name = srch.locked_material
        /\ Len(srch.searches) = 1
        /\ \A i \in 1..Len(srch.searches) :
               <<"material_name", srch.locked_material>> \in srch.searches[i].where
        /\ ~srch.reranked

\* a locked search that returned chunks although the corpus holds a chunk of
\* another material with the tag searched for
C1_Witness ==
    /\ SearchDone
    /\ srch.locked_material = HF
    /\ srch.tag = FirstAid
    /\ srch.docs # <<>>
    /\ \E c \in corpus : c.material_name # HF /\ c.section_tag = FirstAid

\* alias resolution of the whole query against the material names of the corpus
\* succeeds: it does not raise and gives a name
AliasResolves(query, names) ==
    /\ ~NamesRaise
    /\ ~(~Blank(query) /\ LoadRaises)
    /\ ResolveAlias(Loaded, query, names) # None

\* C8 as stated: the filter is the lock if one is given, else the CAS number of
\* the query if it has one, else the material the whole query alias-resolves to
\* against the current material names, else none.
C8_AsStated ==
    SearchDone =>
        srch.filter =
            IF Locked(srch.locked_material)
            THEN Filter1("material_name", srch.locked_material)
            ELSE IF CasSearch(srch.query) # None
            THEN Filter1("cas", CasSearch(srch.query))
            ELSE IF AliasResolves(srch.query, MaterialNames)
            THEN Filter1("material_name", ResolveAlias(Loaded, srch.query, MaterialNames))
            ELSE NoFilter

\* C8: the filter is the lock if a non-empty one is given, else the CAS number
\* of the query if it has one, else, if the corpus has at least one material
\* name, the material the whole query alias-resolves to, else none.
C8_StrictFilterPriority ==
    SearchDone =>
        srch.filter =
            IF Locked(srch.locked_material)
            THEN Filter1("material_name", srch.locked_material)
            ELSE IF CasSearch(srch.query) # None
            THEN Filter1("cas", CasSearch(srch.query))
            ELSE IF MaterialNames # <<>> /\ AliasResolves(srch.query, MaterialNames)
            THEN Filter1("material_name", ResolveAlias(Loaded, srch.query, MaterialNames))
            ELSE NoFilter

\* an unlocked search whose query has a CAS number and also resolves to a
\* material of the corpus: the filter is the CAS number
C8_Witness ==
    /\ SearchDone
    /\ ~Locked(srch.locked_material)
    /\ CasSearch(srch.query) = Cas1
    /\ MaterialNames # <<>>
    /\ AliasResolves(srch.query, MaterialNames)
    /\ srch.filter = Filter1("cas", Cas1)

\* sds_retriever has just returned
RetrieverDone == srch.active /\ srch.fn = "sds_retriever"

\* sds_retriever: when it retries, and with what
RetryOnce ==
    /\ (srch.tag # None /\ srch.calls[1].found = 0) =>
           /\ Len(srch.calls) = 2
           /\ srch.calls[2].locked_material = srch.locked_material
           /\ srch.calls[2].tag = None
    /\ (srch.tag = None \/ srch.calls[1].found > 0) => Len(srch.calls) = 1
    /\ srch.calls[1].locked_material = srch.locked_material
    /\ srch.calls[1].tag = srch.tag

\* the corpus has chunks of material m, none of them with section tag t
LacksTag(m, t) ==
    /\ \E c \in corpus : c.material_name = m
    /\ \A c \in corpus : c.material_name = m => c.section_tag # t

\* sds_retriever returned chunks, all of material m
OnlyChunksOf(m) ==
    /\ srch.results # <<>>
    /\ \A i \in 1..Len(srch.results) : srch.results[i].material = m

\* C9 as stated: sds_retriever(query, M) retries exactly once, with the same
\* lock and no tag, when a tag was inferred and the first search found
\* nothing, and not otherwise; for a corpus with chunks of M but none with the
\* inferred tag the result is non-empty and every chunk in it belongs to M.
C9_AsStated ==
    RetrieverDone =>
        /\ RetryOnce
        /\ (srch.tag # None /\ LacksTag(srch.locked_material, srch.tag)) =>
               OnlyChunksOf(srch.locked_material)

\* C9: sds_retriever(query, M) retries exactly once, with the same lock and no
\* tag, when a tag was inferred and the first search found nothing, and not
\* otherwise; for a non-empty M and a corpus with chunks of M but none with the
\* inferred tag the result is non-empty, every chunk in it belongs to M, and
\* every search made demanded material_name = M.
C9_TagFallback ==
    RetrieverDone =>
        /\ RetryOnce
        /\ (Locked(srch.locked_material) /\ srch.tag # None
                /\ LacksTag(srch.locked_material, srch.tag)) =>
               /\ OnlyChunksOf(srch.locked_material)
               /\ Len(srch.calls) = 2
        /\ Locked(srch.locked_material) =>
               \A i \in 1..Len(srch.calls) : \A j \in 1..Len(srch.calls[i].searches) :
                   <<"material_name", srch.locked_material>>
                       \in srch.calls[i].searches[j].where

\* a retry that found chunks of the locked material in a corpus that also holds
\* a chunk of another material with the inferred tag
C9_Witness ==
    /\ RetrieverDone
    /\ Locked(srch.locked_material)
    /\ srch.tag # None
    /\ Len(srch.calls) = 2
    /\ srch.calls[1].found = 0
    /\ srch.results # <<>>
    /\ \E c \in corpus : c.material_name # srch.locked_material /\ c.section_tag = srch.tag

\* C25: section-tag inference gives the tag of the first matching rule in the
\* order first-aid words, spill words, fire words, or none when no rule
\* matches; it depends on the text of the query only, not on the material,
\* the alias index or the corpus.
C25_FirstMatchingTag ==
    RetrieverDone =>
        srch.calls[1].tag =
            IF HintSearch(FirstAidWords, srch.query) THEN FirstAid
            ELSE IF HintSearch(SpillWords, srch.query) THEN SpillResponse
            ELSE IF HintSearch(FireWords, srch.query) THEN FireFighting
            ELSE None

\* a query with a first-aid word and a fire word gave first_aid
C25_Witness ==
    /\ RetrieverDone
    /\ HintSearch(FirstAidWords, srch.query)
    /\ HintSearch(FireWords, srch.query)
    /\ srch.calls[1].tag = FirstAid
    /\ corpus # {}

\* smart_search returned, having been called without a locked material
UnlockedSearchDone ==
    srch.active /\ srch.fn = "smart_search" /\ ~Locked(srch.locked_material)

\* the condition on section_tag that a tag puts on a search, none without a tag
TagWhere(tag) == IF tag # None /\ Truthy(tag) THEN {<<"section_tag", tag>>} ELSE {}

\* C26: stage order in smart_search without a locked material.  With a strict
\* filter exactly one search is made, capped at k, with the strict filter
\* ANDed with the tag if one is given.  The search by tag only (capped at 2k)
\* runs only without a strict filter, and the unfiltered search (capped at 2k)
\* only when the search by tag returned nothing.  The result has at most k
\* chunks under a strict filter and at most 2k otherwise.
C26_StageOrder ==
    UnlockedSearchDone =>
        /\ srch.filter # NoFilter =>
               /\ srch.searches =
                      <<Searched(srch.k, AsChromaWhere(srch.filter) \cup TagWhere(srch.tag))>>
               /\ Len(srch.docs) <= srch.k
        /\ srch.filter = NoFilter =>
               /\ Len(srch.searches) \in {1, 2}
               /\ srch.searches[1] = Searched(2 * srch.k, TagWhere(srch.tag))
               /\ Len(srch.searches) = 2 =>
                      /\ srch.searches[2] = Searched(2 * srch.k, {})
                      /\ ~\E c \in corpus : Matches(c, TagWhere(srch.tag))
               /\ Len(srch.searches) = 1 => srch.docs # <<>>
               /\ Len(srch.docs) <= 2 * srch.k

\* no strict filter, a tag that no chunk carries: the unfiltered search ran
\* after the search by tag and gave chunks
C26_Witness ==
    /\ UnlockedSearchDone
    /\ srch.filter = NoFilter
    /\ srch.tag = FireFighting
    /\ Len(srch.searches) = 2
    /\ srch.docs # <<>>

\* _rerank_by_terms has returned srch.docs for the chunks srch.raw, called on
\* its own or by a search
RerankDone == srch.active /\ srch.reranked

\* the positive terms of the call: the tokens of the query and the caller's
PositiveTerms ==
    Tokens(Lower(srch.query)) \cup {Lower(srch.pos_terms[i]) : i \in 1..Len(srch.pos_terms)}

NegativeTerms == {Lower(srch.neg_terms[i]) : i \in 1..Len(srch.neg_terms)}

\* twice the score that the call gives chunk d
StatedScore2(d) ==
      (IF /\ ResolvedMaterial(srch.query) \notin {None, <<>>}
          /\ d.material_name = ResolvedMaterial(srch.query) THEN 20 ELSE 0)
    + (IF d.section_tag \in {srch.pos_terms[i] : i \in 1..Len(srch.pos_terms)} THEN 4 ELSE 0)
    + 4 * Cardinality({w \in PositiveTerms : Contains(DocText(d), w)})
    - 3 * Cardinality({w \in NegativeTerms : Contains(DocText(d), w)})

\* where chunk d stood in the list given to the reranker
RawPlace(d) == CHOOSE i \in 1..Len(srch.raw) : srch.raw[i] = d

\* C27: the reranker returns its input chunks rearranged by score, highest
\* first, chunks of equal score in their original order; the score is 10 for
\* the alias-resolved material of the query, 2 for a section_tag among the
\* caller's positive terms, 2 for each positive term (query tokens of two
\* letters or more and the caller's terms) found in the lowercased text and
\* metadata, less 1.5 for each negative term found.  A search reranks the
\* chunks of its search by tag only or without filter, and never those of a
\* search under a strict filter.
C27_RerankOrder ==
    /\ RerankDone =>
           /\ Len(srch.docs) = Len(srch.raw)
           /\ {srch.docs[i] : i \in 1..Len(srch.docs)} = {srch.raw[i] : i \in 1..Len(srch.raw)}
           /\ \A p, q \in 1..Len(srch.docs) :
                  p < q =>
                      \/ StatedScore2(srch.docs[p]) > StatedScore2(srch.docs[q])
                      \/ /\ StatedScore2(srch.docs[p]) = StatedScore2(srch.docs[q])
                         /\ RawPlace(srch.docs[p]) < RawPlace(srch.docs[q])
    /\ SearchDone =>
           /\ srch.reranked <=> srch.filter = NoFilter
           /\ srch.filter # NoFilter => srch.docs = srch.raw /\ Len(srch.searches) = 1
           /\ srch.reranked =>
                  /\ srch.neg_terms = <<>>
                  /\ srch.searches[Len(srch.searches)].where
                         \in {{}, {<<"section_tag", srch.tag>>}}
                  /\ \A i \in 1..Len(srch.raw) :
                         /\ srch.raw[i] \in corpus
                         /\ Matches(srch.raw[i], srch.searches[Len(srch.searches)].where)

\* a call where the alias-resolved material, a positive term and a negative
\* term all count, and the order of the chunks changes
C27_Witness ==
    /\ RerankDone
    /\ srch.docs # srch.raw
    /\ srch.neg_terms # <<>>
    /\ \E i, j \in 1..Len(srch.docs) :
           /\ StatedScore2(srch.docs[i]) >= 20
           /\ StatedScore2(srch.docs[j]) < 0

\* smart_search returned from a call without a lock and without a CAS number
\* in the query, in which the alias resolution raised: _material_names did, or
\* resolve_alias did, reached with a query that is not blank and finding a
\* file that cannot be loaded
ResolutionRaised ==
    /\ UnlockedSearchDone
    /\ CasSearch(srch.query) = None
    /\ \/ NamesRaise
       \/ MaterialNames # <<>> /\ ~Blank(srch.query) /\ LoadRaises

\* the same call, on an empty corpus
EmptyCorpusSearched ==
    /\ UnlockedSearchDone
    /\ CasSearch(srch.query) = None
    /\ corpus = {}

\* C28: building the filter never aborts a search.  Without a lock and without
\* a CAS number in the query, when enumerating the material names or resolving
\* the alias raises, or the corpus is empty, smart_search returns, having got
\* no filter, having searched by tag only (2k) and then, that search being
\* empty, without filter (2k).
C28_FilterNeverAborts ==
    (ResolutionRaised \/ EmptyCorpusSearched) =>
        /\ srch.filter = NoFilter
        /\ Len(srch.searches) >= 1
        /\ srch.searches[1] = Searched(2 * srch.k, TagWhere(srch.tag))
        /\ (~\E c \in corpus : Matches(c, TagWhere(srch.tag))) =>
               /\ Len(srch.searches) = 2
               /\ srch.searches[2] = Searched(2 * srch.k, {})
        /\ EmptyCorpusSearched => Len(srch.searches) = 2 /\ srch.docs = <<>>

\* the alias file cannot be loaded, the query names a material of the corpus,
\* and the search by tag found nothing: the unfiltered search returned chunks
C28_Witness ==
    /\ ResolutionRaised
    /\ ~NamesRaise
    /\ srch.query = <<"h", "f">>
    /\ \E c \in corpus : c.material_name = HF
    /\ Len(srch.searches) = 2
    /\ srch.docs # <<>>

\* a search function returned from a call without a lock whose query has a
\* CAS number or resolves to a material
StrictWithoutLock ==
    /\ SearchDone
    /\ ~Locked(srch.locked_material)
    /\ \/ CasSearch(srch.query) # None
       \/ ResolvedMaterial(srch.query) \notin {None, <<>>}

\* the section tag that the function adds to the strict filter
StrictTag ==
    IF srch.fn = "smart_first_aid_search" THEN {<<"section_tag", FirstAid>>}
    ELSE TagWhere(srch.tag)

\* C29: in smart_search and smart_first_aid_search without a lock, a strict
\* filter from a CAS number or from the alias resolution is final: the one
\* search under it is the whole call, its chunks are returned as found, and
\* when there is none the result is empty; no search by tag only, no
\* unfiltered search and no reranking follow.
C29_StrictIsFinal ==
    StrictWithoutLock =>
        /\ srch.filter # NoFilter
        /\ srch.filter \in {Filter1("cas", CasSearch(srch.query)),
                            Filter1("material_name", ResolvedMaterial(srch.query))}
        /\ srch.searches = <<Searched(srch.k, AsChromaWhere(srch.filter) \cup StrictTag)>>
        /\ ~srch.reranked
        /\ srch.docs = srch.raw
        /\ \A i \in 1..Len(srch.docs) :
               /\ srch.docs[i] \in corpus
               /\ Matches(srch.docs[i], srch.searches[1].where)
        /\ (~\E c \in corpus : Matches(c, srch.searches[1].where)) => srch.docs = <<>>

\* an empty result under a strict filter although the corpus holds a chunk
\* with the tag asked for, which the search by tag only would have returned
C29_Witness ==
    /\ StrictWithoutLock
    /\ srch.docs = <<>>
    /\ \E c \in corpus : Matches(c, StrictTag)

-----------------------------------------------------------------------------
(* The calculator: unit_dilution_calculator called with one payload after
   another.  The lookup of a molar mass is the environment's: what it
   answers for an item is chosen with the payload. *)

MaxItems == 2

\* an item with a name, a mode and a type, and none of the other keys
BareItem(name, mode, type) ==
    [name |-> name, mode |-> mode, type |-> type, stock_conc |-> Missing,
     stock_unit |-> None, final_conc |-> Missing, final_unit |-> None,
     final_ml |-> Missing, molar_mass |-> Missing, added_ml |-> Missing,
     added_mg |-> Missing]

Tenth == Number(Frac(1, 10))
NaCl == Frac(1461, 25)

StockConcs == {Number(Whole(0)), Number(Whole(1)), Number(Whole(-2))}
StockUnits == {UnitM, UnitmM, <<" ", "M", " ">>, UnitGL, UnitPercent, <<"p", "p", "m">>, None}
FinalUnits == {UnitM, UnitMojibake, UnitMgMl, UnitPercent}
MolarMasses == {Missing, Null, Number(Whole(0)), Number(Whole(50))}

\* a payload item together with the answer of the lookup for its name
Case(it, pubchem) == [it |-> it, pubchem |-> pubchem]

AddVolCases ==
    { Case([BareItem("A", <<"solve_add_vol">>, <<"liquid">>) EXCEPT
                !.stock_conc = sc, !.stock_unit = su, !.final_conc = fc,
                !.final_unit = fu, !.final_ml = Number(Whole(500)), !.molar_mass = mm],
           PubchemFails) :
        sc \in StockConcs, su \in StockUnits, fc \in {Tenth, Missing},
        fu \in FinalUnits, mm \in MolarMasses }

AddMassCases ==
    { Case([BareItem("A", <<"solve_add_mass">>, <<"powder">>) EXCEPT
                !.final_conc = Tenth, !.final_unit = fu,
                !.final_ml = Number(Whole(500)), !.molar_mass = mm],
           pubchem) :
        fu \in {UnitM, UnitmM, UnitMgMl, UnitGL, UnitPercent, None},
        mm \in {Missing, Null, Number(Whole(0)), Number(NaCl)},
        pubchem \in {PubchemFails, PubchemGives(NaCl), PubchemGives(Whole(40))} }

FinalConcLiquidCases ==
    { Case([BareItem("A", <<"solve_final_conc">>, <<"liquid">>) EXCEPT
                !.stock_conc = sc, !.stock_unit = su, !.added_ml = ml,
                !.final_ml = fv],
           PubchemFails) :
        sc \in {Number(Whole(1)), Missing}, su \in {UnitM, UnitGL, <<"p", "p", "m">>},
        ml \in {Number(Whole(50)), Missing},
        fv \in {Number(Whole(500)), Number(Whole(0))} }

FinalConcPowderCases ==
    { Case([BareItem("A", <<"solve_final_conc">>, <<"powder">>) EXCEPT
                !.added_mg = mg, !.molar_mass = mm, !.final_ml = fv],
           PubchemFails) :
        mg \in {Number(Whole(500)), Missing},
        mm \in {Number(NaCl), Number(Whole(0)), Number(Whole(-50)), Missing},
        fv \in {Number(Whole(500)), Number(Whole(0)), Number(Whole(-500))} }

OtherCases ==
    { Case([BareItem("A", mode, type) EXCEPT !.final_ml = fv], PubchemFails) :
        mode \in {<<"solve_final_conc">>, <<"titrate">>, <<>>},
        type \in {<<"gas">>, <<>>},
        fv \in {Number(Whole(500)), Missing} }

Cases ==
    AddVolCases \cup AddMassCases \cup FinalConcLiquidCases \cup FinalConcPowderCases
        \cup OtherCases

\* the items that stand before or after the one of Cases in a longer payload:
\* one that computes, one of a type no branch handles, one of an unknown mode
Companions ==
    { Case([BareItem("B", <<"solve_add_vol">>, <<"liquid">>) EXCEPT
                !.stock_conc = Number(Whole(1)), !.stock_unit = UnitM,
                !.final_conc = Tenth, !.final_unit = UnitM,
                !.final_ml = Number(Whole(500))],
           PubchemFails),
      Case([BareItem("C", <<"solve_final_conc">>, <<"gas">>) EXCEPT
                !.final_ml = Number(Whole(500))],
           PubchemFails),
      Case([BareItem("A", <<"titrate">>, <<"liquid">>) EXCEPT
                !.final_ml = Number(Whole(500))],
           PubchemFails) }

\* the payloads: one case alone, or with companions before it or after it
Payloads ==
    { <<c>> \o rest : c \in Cases, rest \in ListsUpTo(Companions, MaxItems - 1) }
        \cup { rest \o <<c>> : c \in Cases, rest \in ListsUpTo(Companions, MaxItems - 1) }

\* The caller feeds a computed volume back: after a payload of one
\* solve_add_vol item that gave a volume, the solve_final_conc item of the same
\* stock and final volume with that volume as added_ml.
FedBack(c) ==
    IF c.active /\ ~c.fed /\ c.ok /\ Len(c.items) = 1
           /\ c.items[1].mode = <<"solve_add_vol">>
    THEN { << Case([BareItem(c.items[1].name, <<"solve_final_conc">>, <<"liquid">>)
                       EXCEPT !.stock_conc = c.items[1].stock_conc,
                              !.stock_unit = c.items[1].stock_unit,
                              !.final_ml = c.items[1].final_ml,
                              !.molar_mass = c.items[1].molar_mass,
                              !.added_ml = Number(c.out[c.items[1].name].val)],
                  PubchemFails) >> }
    ELSE {}

\* the call returns or raises: calc holds the payload and the outcome
CalcReturned(p, fed, prev) ==
    LET items == [i \in 1..Len(p) |-> p[i].it]
        pubchem == [i \in 1..Len(p) |-> p[i].pubchem]
        r == Calc(items, pubchem)
    IN  calc' = [active |-> TRUE, items |-> items, pubchem |-> pubchem, fed |-> fed,
                 prev |-> prev, ok |-> r.ok, out |-> r.out, exc |-> r.exc,
                 msg |-> r.msg, at |-> r.at]

unit_dilution_calculator ==
    /\ \/ /\ ~calc.active
          /\ \E p \in Payloads : CalcReturned(p, FALSE, <<>>)
       \/ \E p \in FedBack(calc) : CalcReturned(p, TRUE, calc.items)
    /\ UNCHANGED <<cache, heap, file, last, lock, pc, call, data, rd, hist, corpus, srch, mix>>

\* the caller is done with the answer; the next payload is a fresh one
CalcReturn ==
    /\ calc.active
    /\ calc' = NoCalc
    /\ UNCHANGED <<cache, heap, file, last, lock, pc, call, data, rd, hist, corpus, srch, mix>>

InitCalc ==
    /\ cache = 0
    /\ heap = <<>>
    /\ file = AbsentFile
    /\ last = NoLast
    /\ NoThreads
    /\ corpus = {}
    /\ srch = NoSearch
    /\ calc = NoCalc
    /\ mix = NoMix

NextCalc ==
    \/ unit_dilution_calculator
    \/ CalcReturn

SpecCalc == InitCalc /\ [][NextCalc]_vars


-----------------------------------------------------------------------------
(* Claims about the calculator *)

\* the only item of the payload, when the payload has one item of that mode
Single(items, mode) == Len(items) = 1 /\ items[1].mode = <<mode>>

\* a concentration and its unit in the base unit of the unit's family
Base(conc, unit) == ConvertToBaseUnits(NumberOf(conc), unit)

\* the item has a stock and a target with supported units
HasStockAndTarget(it) ==
    /\ it.stock_conc \notin {Missing, Null} /\ it.final_conc \notin {Missing, Null}
    /\ it.stock_unit # None /\ it.final_unit # None
    /\ Base(it.stock_conc, it.stock_unit).ok /\ Base(it.final_conc, it.final_unit).ok

SameFamily(it) ==
    /\ HasStockAndTarget(it)
    /\ Base(it.stock_conc, it.stock_unit).unit = Base(it.final_conc, it.final_unit).unit

Positive(f) == f \notin {Missing, Null} /\ f[2] > 0

\* the premise of the round trip: a stock other than zero, a target and a
\* final volume above zero, both units of one family
RoundTripCase(it) ==
    /\ SameFamily(it)
    /\ NumberOf(it.stock_conc) # Zero
    /\ Positive(it.final_conc)
    /\ Positive(it.final_ml)

\* C13: Dilution round trip.  For a stock other than zero, a target and a final
\* volume above zero, stock and target of one unit family: solve_add_vol gives
\* a volume v, and solve_final_conc (liquid) with the same stock, v as the
\* added volume and the same final volume gives the target concentration in
\* the base unit of the stock.
C13_RoundTrip ==
    /\ (calc.active /\ ~calc.fed /\ Single(calc.items, "solve_add_vol")
            /\ RoundTripCase(calc.items[1])) =>
           /\ calc.ok
           /\ calc.out[calc.items[1].name].key = "add_vol_ml"
    /\ (calc.fed /\ RoundTripCase(calc.prev[1])) =>
           /\ calc.ok
           /\ calc.out[calc.items[1].name] =
                  Entry("final_conc_",
                        Gives(Base(calc.prev[1].final_conc, calc.prev[1].final_unit).val,
                              Base(calc.prev[1].stock_conc, calc.prev[1].stock_unit).unit))

\* stock 1 M, target 0.1 M, 500 mL gave 50 mL, and 50 mL fed back gives 0.1 M
C13_Witness ==
    /\ calc.fed
    /\ RoundTripCase(calc.prev[1])
    /\ calc.prev[1].stock_conc = Number(Whole(1)) /\ calc.prev[1].stock_unit = UnitM
    /\ calc.prev[1].final_conc = Tenth /\ calc.prev[1].final_unit = UnitM
    /\ calc.items[1].added_ml = Number(Whole(50))
    /\ calc.ok
    /\ calc.out["A"].val = Frac(1, 10) /\ calc.out["A"].unit = UnitM

\* the call raised the input error of the code, ValueError
InputError == calc.active /\ ~calc.ok /\ calc.exc = "ValueError"

\* the item has every key its mode reads, with a number or a unit in each
Complete(it) ==
    /\ it.final_ml \notin {Missing, Null}
    /\ it.mode = <<"solve_add_vol">> =>
           /\ it.stock_conc \notin {Missing, Null} /\ it.stock_unit # None
           /\ it.final_conc \notin {Missing, Null} /\ it.final_unit # None
    /\ it.mode = <<"solve_add_mass">> =>
           /\ it.final_conc \notin {Missing, Null} /\ it.final_unit # None
    /\ (it.mode = <<"solve_final_conc">> /\ it.type = <<"liquid">>) =>
           /\ it.stock_conc \notin {Missing, Null} /\ it.stock_unit # None
           /\ it.added_ml \notin {Missing, Null}
    /\ (it.mode = <<"solve_final_conc">> /\ it.type = <<"powder">>) =>
           /\ it.added_mg \notin {Missing, Null}
           /\ it.molar_mass \notin {Missing, Null}

\* C14: Zero-guard.  solve_add_vol with stock_conc = 0 raises an input error,
\* and solve_final_conc (powder) with molar_mass = 0 raises an input error,
\* whatever the values of the other fields; no number is given for the item.
C14_ZeroGuard ==
    /\ (calc.active /\ Single(calc.items, "solve_add_vol") /\ Complete(calc.items[1])
            /\ calc.items[1].stock_conc = Number(Zero)) => InputError
    /\ (calc.active /\ Single(calc.items, "solve_final_conc")
            /\ calc.items[1].type = <<"powder">> /\ Complete(calc.items[1])
            /\ calc.items[1].molar_mass = Number(Zero)) => InputError

\* a concentration given in a base unit, in mol/L: mg/mL is g/L, g/100mL is
\* 10 g/L, and g/L over the molar mass (g/mol) is mol/L
InMolar(val, unit, molar_mass) ==
    IF unit = UnitM THEN val
    ELSE IF unit = UnitMgMl THEN Over(val, molar_mass)
    ELSE Over(Times(val, Whole(10)), molar_mass)

\* stock and target of the item in one basis: their base unit when it is the
\* same, mol/L otherwise
InCommon(it) ==
    LET s == Base(it.stock_conc, it.stock_unit)
        f == Base(it.final_conc, it.final_unit)
        mm == NumberOf(it.molar_mass)
    IN  IF s.unit = f.unit THEN [stock |-> s.val, target |-> f.val]
        ELSE [stock |-> InMolar(s.val, s.unit, mm), target |-> InMolar(f.val, f.unit, mm)]

\* C15: solve_add_vol obeys the conservation law for every pair of supported
\* units: stock x v = target x final volume with both concentrations in one
\* basis, the molar mass converting between bases when they differ.
C15_Conservation ==
    (calc.active /\ calc.ok /\ Single(calc.items, "solve_add_vol")
        /\ HasStockAndTarget(calc.items[1])
        /\ (SameFamily(calc.items[1]) \/ Positive(calc.items[1].molar_mass))) =>
        LET it == calc.items[1]
            v == calc.out[it.name].val
        IN  Times(InCommon(it).stock, v) = Times(InCommon(it).target, NumberOf(it.final_ml))

\* the payload was one item and the call gave the number val for it under key
GaveSingle(key, val) ==
    /\ calc.ok
    /\ calc.items[1].name \in DOMAIN calc.out
    /\ calc.out[calc.items[1].name].key = key
    /\ calc.out[calc.items[1].name].val = val

\* C16: solve_add_mass gives grams under mass_to_add_g.  For a molar target:
\* concentration in M x final volume in L x molar mass.  For a target in g/L or
\* mg/mL: concentration x volume, in grams, and the item needs no molar mass.
C16_MassInGrams ==
    (calc.active /\ Single(calc.items, "solve_add_mass") /\ Complete(calc.items[1])
        /\ Base(calc.items[1].final_conc, calc.items[1].final_unit).ok) =>
        LET it == calc.items[1]
            f == Base(it.final_conc, it.final_unit)
            litres == Over(NumberOf(it.final_ml), Whole(1000))
        IN  /\ (f.unit = UnitM /\ it.molar_mass \notin {Missing, Null}) =>
                   GaveSingle("mass_to_add_g",
                              Times(Times(f.val, litres), NumberOf(it.molar_mass)))
            /\ f.unit = UnitMgMl => GaveSingle("mass_to_add_g", Times(f.val, litres))

\* C17: solve_add_vol whose stock and target units normalize to different
\* bases and whose item carries no molar mass fails with an input error and
\* gives no number; when the two units normalize to the same base the
\* computation needs no molar mass: it gives what it gives without one.
C17_MolarMassRequired ==
    (calc.active /\ Single(calc.items, "solve_add_vol") /\ Complete(calc.items[1])
        /\ HasStockAndTarget(calc.items[1])) =>
        LET it == calc.items[1] IN
        /\ (~SameFamily(it) /\ it.molar_mass \in {Missing, Null}) =>
               /\ InputError
               /\ calc.msg = "Molar mass is required"
               /\ calc.out = EmptyOut
        /\ SameFamily(it) =>
               /\ calc.msg # "Molar mass is required"
               /\ CalcItem([it EXCEPT !.molar_mass = Missing], calc.pubchem[1])
                      = CalcItem(it, calc.pubchem[1])
               /\ NumberOf(it.stock_conc) # Zero => calc.ok

\* stock in M, target in mg/mL, no molar mass: the call raised
C17_Witness ==
    /\ calc.active /\ Single(calc.items, "solve_add_vol")
    /\ calc.items[1].stock_unit = UnitM /\ calc.items[1].final_unit = UnitMgMl
    /\ calc.items[1].stock_conc = Number(Whole(1))
    /\ calc.items[1].final_conc = Tenth
    /\ calc.items[1].molar_mass = Missing
    /\ InputError
    /\ calc.msg = "Molar mass is required"

\* the lookup failed for the only item of the payload
LookupFailed == ~calc.pubchem[1].ok

\* C18: in solve_add_mass, when the lookup of the molar mass fails and the item
\* carries a molar_mass, the failure is caught and the arithmetic proceeds
\* with the caller's value; when the lookup fails and the item carries none,
\* the item fails with an input error saying that the molar mass is required.
C18_LookupFallback ==
    (calc.active /\ Single(calc.items, "solve_add_mass") /\ Complete(calc.items[1])
        /\ LookupFailed) =>
        LET it == calc.items[1]
            own == CalculateMassToAdd(NumberOf(it.final_conc), it.final_unit,
                                      NumberOf(it.final_ml), NumberOf(it.molar_mass))
        IN  /\ (it.molar_mass \notin {Missing, Null} /\ own.ok) =>
                   GaveSingle("mass_to_add_g", own.val)
            /\ it.molar_mass \in {Missing, Null} => InputError

\* C19: the lookup supplies the molar mass only when the caller did not: for a
\* solve_add_mass item that carries molar_mass the outcome is the one computed
\* from the caller's value, whether the lookup succeeds, fails or answers
\* another number.
C19_CallerValueWins ==
    (calc.active /\ Single(calc.items, "solve_add_mass")
        /\ calc.items[1].molar_mass \notin {Missing, Null}) =>
        LET r == Calc(calc.items, <<PubchemFails>>) IN
        /\ calc.ok = r.ok
        /\ calc.out = r.out
        /\ calc.exc = r.exc

\* the divisors of an item: stock concentration, molar mass, final volume,
\* where its mode divides by them
ZeroOrNegative(f) == f \notin {Missing, Null} /\ f[2] <= 0

BadDivisor(it) ==
    \/ it.mode = <<"solve_add_vol">> /\ ZeroOrNegative(it.stock_conc)
    \/ /\ it.mode = <<"solve_final_conc">>
       /\ it.type \in {<<"liquid">>, <<"powder">>}
       /\ ZeroOrNegative(it.final_ml)
    \/ /\ it.mode = <<"solve_final_conc">>
       /\ it.type = <<"powder">>
       /\ ZeroOrNegative(it.molar_mass)

\* C20: every failure of an item's computation (unsupported unit, unknown
\* mode, missing field of the mode, zero or negative divisor) reaches the
\* caller as an input error; none is absorbed and none gives a number.
C20_FailuresAreInputErrors ==
    calc.active =>
        /\ ~calc.ok => calc.exc = "ValueError"
        /\ calc.ok => \A i \in 1..Len(calc.items) : calc.items[i].name \in DOMAIN calc.out
        /\ (\E i \in 1..Len(calc.items) : BadDivisor(calc.items[i])) => ~calc.ok

\* the position of the first item of the payload that raises, 0 when none does
FirstFailing(items, pubchem) ==
    LET failing == {i \in 1..Len(items) : CalcItem(items[i], pubchem[i]).kind = "raise"}
    IN  IF failing = {} THEN 0 ELSE CHOOSE i \in failing : \A j \in failing : i <= j

\* C21: the calculator never skips an item silently.  Whatever the mode and
\* type of the items, _calc either returns a response with an entry for each
\* item, or stops at the first failing item with an error and returns nothing.
C21_NoSilentSkip ==
    calc.active =>
        /\ calc.ok =>
               /\ FirstFailing(calc.items, calc.pubchem) = 0
               /\ \A i \in 1..Len(calc.items) : calc.items[i].name \in DOMAIN calc.out
        /\ ~calc.ok =>
               /\ calc.at = FirstFailing(calc.items, calc.pubchem)
               /\ calc.out = EmptyOut


-----------------------------------------------------------------------------
(* agent/agent_tools/property_summarizer.py and agent/mix_agent_test.py *)

\* the six search_queries of get_material_properties, without the name
PropertyQueries ==
    <<<<" ", "h", "a", "z", "a", "r", "d", "s", " ", "i", "d", "e", "n", "t", "i", "f", "i", "c", "a", "t", "i", "o", "n">>,
      <<" ", "p", "h", "y", "s", "i", "c", "a", "l", " ", "a", "n", "d", " ", "c", "h", "e", "m", "i", "c", "a", "l", " ", "p", "r", "o", "p", "e", "r", "t", "i", "e", "s">>,
      <<" ", "s", "t", "a", "b", "i", "l", "i", "t", "y", " ", "a", "n", "d", " ", "r", "e", "a", "c", "t", "i", "v", "i", "t", "y">>,
      <<" ", "p", "H">>,
      <<" ", "i", "n", "c", "o", "m", "p", "a", "t", "i", "b", "i", "l", "i", "t", "i", "e", "s">>,
      <<" ", "o", "x", "i", "d", "i", "z", "e", "r">>>>

\* relevant_docs: the chunks of the searches for the queries from the i-th on,
\* each smart_search(query, k=2, locked_material=material_name); every list
\* the searches can give in the current state
RECURSIVE RelevantDocs(_, _)
RelevantDocs(material_name, i) ==
    IF i > Len(PropertyQueries) THEN {<<>>}
    ELSE {o.docs \o rest :
             o \in SmartSearch(material_name \o PropertyQueries[i], 2, material_name, None),
             rest \in RelevantDocs(material_name, i + 1)}

\* " ".join([doc.page_content for doc in relevant_docs]).lower()
Context(docs) == Lower(Join([i \in 1..Len(docs) |-> docs[i].text]))

IncompatibleWithAcids == <<"i", "n", "c", "o", "m", "p", "a", "t", "i", "b", "l", "e", " ", "w", "i", "t", "h", " ", "a", "c", "i", "d", "s">>
IncompatibleWithBases == <<"i", "n", "c", "o", "m", "p", "a", "t", "i", "b", "l", "e", " ", "w", "i", "t", "h", " ", "b", "a", "s", "e", "s">>
IncompatibleWithOxidizers == <<"i", "n", "c", "o", "m", "p", "a", "t", "i", "b", "l", "e", " ", "w", "i", "t", "h", " ", "o", "x", "i", "d", "i", "z", "e", "r", "s">>
IncompatibleWithOrganic == <<"i", "n", "c", "o", "m", "p", "a", "t", "i", "b", "l", "e", " ", "w", "i", "t", "h", " ", "o", "r", "g", "a", "n", "i", "c", " ", "m", "a", "t", "e", "r", "i", "a", "l", "s">>

\* the incompatibility checks
Incompatibilities(context) ==
    {t \in {"incompatible_with_acids"} : Contains(context, IncompatibleWithAcids)}
    \cup {t \in {"incompatible_with_bases"} : Contains(context, IncompatibleWithBases)}
    \cup {t \in {"incompatible_with_oxidizers"} :
              Contains(context, IncompatibleWithOxidizers)}
    \cup {t \in {"incompatible_with_organic_materials"} :
              Contains(context, IncompatibleWithOrganic)}

\* the property checks: the tag and the phrases one of which must occur
PropertyRules ==
    {<<"acid", {<<"s", "t", "r", "o", "n", "g", " ", "a", "c", "i", "d">>, <<"p", "h", "<", "7">>}>>,
     <<"base", {<<"s", "t", "r", "o", "n", "g", " ", "b", "a", "s", "e">>,
                <<"a", "l", "k", "a", "l", "i", "n", "e">>, <<"p", "h", ">", "7">>}>>,
     <<"oxidizer", {<<"o", "x", "i", "d", "i", "z", "e", "r">>}>>,
     <<"flammable", {<<"f", "l", "a", "m", "m", "a", "b", "l", "e">>}>>,
     <<"corrosive", {<<"c", "o", "r", "r", "o", "s", "i", "v", "e">>}>>,
     <<"toxic", {<<"t", "o", "x", "i", "c">>}>>,
     <<"reacts_violently_with_water",
       {<<"r", "e", "a", "c", "t", "s", " ", "v", "i", "o", "l", "e", "n", "t", "l", "y", " ", "w", "i", "t", "h", " ", "w", "a", "t", "e", "r">>}>>}

\* property rules without the rule for oxidizer
Properties_NoOxidizer(context) ==
    {r[1] : r \in {x \in PropertyRules :
                      x[1] # "oxidizer" /\ \E s \in x[2] : Contains(context, s)}}

\* the property checks: a tag for each rule one of whose phrases is in context
Properties(context) ==
    {r[1] : r \in {x \in PropertyRules : \E s \in x[2] : Contains(context, s)}}

\* the dicts get_material_properties returns (as JSON): from keys to sets of tags
NoPropertiesFound == [key \in {"properties"} |-> {"No properties found in SDS"}]

PropertyDict(properties, incompatibilities) ==
    [key \in {"properties", "incompatibilities"} |->
        IF key = "properties" THEN properties ELSE incompatibilities]

\* a get_material_properties without the test of relevant_docs
Summarize_NoSentinel(docs) ==
    LET context == Context(docs) IN
    IF Properties(context) = {} /\ Incompatibilities(context) = {}
    THEN PropertyDict({"No specific hazard properties found"}, {})
    ELSE PropertyDict(Properties(context), Incompatibilities(context))

\* get_material_properties from relevant_docs on
Summarize(docs) ==
    IF docs = <<>> THEN NoPropertiesFound
    ELSE LET context == Context(docs) IN
         IF Properties(context) = {} /\ Incompatibilities(context) = {}
         THEN PropertyDict({"No specific hazard properties found"}, {})
         ELSE PropertyDict(Properties(context), Incompatibilities(context))

\* get_material_properties: every result it can have in the current state,
\* with the chunks it was computed from
GetMaterialProperties(material_name) ==
    {[relevant_docs |-> docs, result |-> Summarize(docs)] :
        docs \in RelevantDocs(material_name, 1)}

\* props.get(key, [])
GetOr(props, key) == IF key \in DOMAIN props THEN props[key] ELSE {}

\* the incompatibility categories analyze_mixture checks, each with the
\* property it is checked against, in the order of the checks
CrossChecks ==
    <<<<"incompatible_with_acids", "acid">>,
      <<"incompatible_with_bases", "base">>,
      <<"incompatible_with_oxidizers", "oxidizer">>>>

\* a body of the inner loop that tests one direction only
PairChecks_OneWay(mat1, mat2, props1, props2) ==
    IF \E c \in 1..Len(CrossChecks) :
           /\ CrossChecks[c][1] \in GetOr(props1, "incompatibilities")
           /\ CrossChecks[c][2] \in GetOr(props2, "properties")
    THEN <<<<mat1, mat2>>>>
    ELSE <<>>

\* the body of the inner loop of analyze_mixture from the c-th check on: the
\* pairs it appends for the materials mat1 and mat2
RECURSIVE PairChecksFrom(_, _, _, _, _)
PairChecksFrom(mat1, mat2, props1, props2, c) ==
    IF c > Len(CrossChecks) THEN <<>>
    ELSE (IF /\ CrossChecks[c][1] \in GetOr(props1, "incompatibilities")
             /\ CrossChecks[c][2] \in GetOr(props2, "properties")
          THEN <<<<mat1, mat2>>>> ELSE <<>>)
         \o (IF /\ CrossChecks[c][1] \in GetOr(props2, "incompatibilities")
                /\ CrossChecks[c][2] \in GetOr(props1, "properties")
             THEN <<<<mat2, mat1>>>> ELSE <<>>)
         \o PairChecksFrom(mat1, mat2, props1, props2, c + 1)

PairChecks(mat1, mat2, props1, props2) == PairChecksFrom(mat1, mat2, props1, props2, 1)

\* the loops over i and over j > i, from (i, j) on
RECURSIVE IncompatiblePairsFrom(_, _, _, _)
IncompatiblePairsFrom(material_names, material_properties, i, j) ==
    IF i > Len(material_names) THEN <<>>
    ELSE IF j > Len(material_names)
    THEN IncompatiblePairsFrom(material_names, material_properties, i + 1, i + 2)
    ELSE PairChecks(material_names[i], material_names[j],
                    material_properties[material_names[i]],
                    material_properties[material_names[j]])
         \o IncompatiblePairsFrom(material_names, material_properties, i, j + 1)

\* incompatible_pairs of analyze_mixture
IncompatiblePairs(material_names, material_properties) ==
    IncompatiblePairsFrom(material_names, material_properties, 1, 2)

-----------------------------------------------------------------------------
(* The mixture analysis over a corpus: get_material_properties and
   analyze_mixture called one after another *)

MaxMaterials == 2

Water == <<"W">>
MixMaterials == {HF, FBS, Water}

\* the chunks a corpus of the mixture analysis is drawn from
MixChunkUniverse ==
    {Chunk(HF, OtherTag, None, <<"I", "n", "c", "o", "m", "p", "a", "t", "i", "b", "l", "e", " ", "w", "i", "t", "h", " ", "a", "c", "i", "d", "s">>),
     Chunk(HF, OtherTag, None, <<"O", "x", "i", "d", "i", "z", "e", "r">>),
     Chunk(FBS, OtherTag, None, <<"s", "t", "r", "o", "n", "g", " ", "a", "c", "i", "d">>),
     Chunk(FBS, OtherTag, None, <<"i", "n", "c", "o", "m", "p", "a", "t", "i", "b", "l", "e", " ", "w", "i", "t", "h", " ", "o", "x", "i", "d", "i", "z", "e", "r", "s">>),
     Chunk(Water, OtherTag, None, <<"r", "i", "n", "s", "e", " ", "e", "y", "e">>)}

MixCorpora == {c \in SUBSET MixChunkUniverse : Cardinality(c) <= MaxChunks}

\* the names of a list
Range(l) == {l[i] : i \in 1..Len(l)}

\* material_properties after the first loop of analyze_mixture: for each name
\* what get_material_properties returned for it (the last time, for a name
\* that stands twice in the list); returns[m] is what it can return for m
MaterialProperties(material_names, returns) ==
    {mp \in [Range(material_names) -> UNION {returns[m] : m \in Range(material_names)}] :
        \A m \in Range(material_names) : mp[m] \in returns[m]}

get_material_properties ==
    \E material_name \in MixMaterials :
        /\ ~mix.active
        /\ \E r \in GetMaterialProperties(material_name) :
               mix' = [NoMix EXCEPT !.active = TRUE, !.fn = "get_material_properties",
                                    !.material_names = <<material_name>>,
                                    !.relevant_docs = r.relevant_docs, !.result = r.result]
        /\ UNCHANGED <<cache, heap, file, last, lock, pc, call, data, rd, hist, corpus,
                       srch, calc>>

analyze_mixture ==
    /\ ~mix.active
    /\ \E returns \in {[m \in MixMaterials |-> GetMaterialProperties(m)]},
          material_names \in ListsUpTo(MixMaterials, MaxMaterials) :
           \E mp \in MaterialProperties(material_names, returns) :
               LET material_properties == [m \in DOMAIN mp |-> mp[m].result] IN
               mix' = [NoMix EXCEPT
                          !.active = TRUE, !.fn = "analyze_mixture",
                          !.material_names = material_names,
                          !.material_properties = material_properties,
                          !.incompatible_pairs =
                              IncompatiblePairs(material_names, material_properties)]
    /\ UNCHANGED <<cache, heap, file, last, lock, pc, call, data, rd, hist, corpus,
                   srch, calc>>

\* the caller takes the result; the next call may start
MixReturn ==
    /\ mix.active
    /\ mix' = NoMix
    /\ UNCHANGED <<cache, heap, file, last, lock, pc, call, data, rd, hist, corpus,
                   srch, calc>>

InitMix ==
    /\ cache = 0
    /\ heap = <<>>
    /\ file = AbsentFile
    /\ last = NoLast
    /\ NoThreads
    /\ corpus \in MixCorpora
    /\ srch = NoSearch
    /\ calc = NoCalc
    /\ mix = NoMix

NextMix ==
    \/ get_material_properties
    \/ analyze_mixture
    \/ MixReturn

SpecMix == InitMix /\ [][NextMix]_vars


-----------------------------------------------------------------------------
(* Claims about the mixture analysis *)

Analyzed == mix.active /\ mix.fn = "analyze_mixture"

\* a declares a category of incompatibility and b exhibits its property
Declares(propsA, propsB) ==
    \E c \in 1..Len(CrossChecks) :
        /\ CrossChecks[c][1] \in GetOr(propsA, "incompatibilities")
        /\ CrossChecks[c][2] \in GetOr(propsB, "properties")

\* C22: pairwise cross-check in analyze_mixture.  The ordered pair (A, B) of
\* two materials of the list is flagged exactly when A declares an
\* incompatibility category (with acids, bases, oxidizers) and B exhibits the
\* corresponding property (acid, base, oxidizer).
C22_PairwiseCrossCheck ==
    Analyzed =>
        \A a, b \in MixMaterials :
            <<a, b>> \in Range(mix.incompatible_pairs) <=>
                \E i, j \in 1..Len(mix.material_names) :
                    /\ i # j
                    /\ mix.material_names[i] = a
                    /\ mix.material_names[j] = b
                    /\ Declares(mix.material_properties[a], mix.material_properties[b])

\* the second material declares incompatible_with_oxidizers, the first is an
\* oxidizer and declares nothing: exactly the pair (second, first) is flagged
C22_Witness ==
    /\ Analyzed
    /\ mix.material_names = <<HF, FBS>>
    /\ "incompatible_with_oxidizers" \in GetOr(mix.material_properties[FBS], "incompatibilities")
    /\ GetOr(mix.material_properties[HF], "properties") = {"oxidizer"}
    /\ GetOr(mix.material_properties[HF], "incompatibilities") = {}
    /\ Range(mix.incompatible_pairs) = {<<FBS, HF>>}

Summarized == mix.active /\ mix.fn = "get_material_properties"

\* no rule of get_material_properties matches the text of the chunks
NoRuleMatched(docs) ==
    Properties(Context(docs)) = {} /\ Incompatibilities(Context(docs)) = {}

\* C23: get_material_properties tells 'nothing retrieved' from 'nothing
\* hazardous found'.  When none of its searches returns a chunk it returns the
\* sentinel 'No properties found in SDS', not an empty set, and this differs
\* from what it returns when chunks were retrieved but no rule matched.
C23_SentinelWhenNothingRetrieved ==
    Summarized =>
        /\ mix.relevant_docs = <<>> =>
               /\ mix.result = NoPropertiesFound
               /\ mix.result["properties"] = {"No properties found in SDS"}
        /\ (mix.relevant_docs # <<>> /\ NoRuleMatched(mix.relevant_docs)) =>
               /\ mix.result # NoPropertiesFound
               /\ mix.result["properties"] = {"No specific hazard properties found"}
               /\ mix.result["incompatibilities"] = {}
        /\ mix.relevant_docs # <<>> => mix.result # NoPropertiesFound

\* a material without a chunk in a corpus that holds chunks of others
C23_Witness ==
    /\ Summarized
    /\ corpus # {}
    /\ mix.relevant_docs = <<>>
    /\ mix.result = NoPropertiesFound

\* in the result r, the tag incompatible_with_oxidizers comes with the tag
\* oxidizer
OxidizerImplied(r) ==
    "incompatible_with_oxidizers" \in GetOr(r, "incompatibilities") =>
        "oxidizer" \in GetOr(r, "properties")

\* C30: in every result of get_material_properties computed from retrieved
\* text, incompatibilities holding incompatible_with_oxidizers implies
\* properties holding oxidizer: both rules look for their phrase in the same
\* pooled lowercased text, and 'incompatible with oxidizers' contains
\* 'oxidizer'.  The same holds of the results analyze_mixture works from.
C30_OxidizerTagsDependent ==
    /\ Summarized => OxidizerImplied(mix.result)
    /\ Analyzed =>
           \A m \in DOMAIN mix.material_properties :
               OxidizerImplied(mix.material_properties[m])

\* a material whose retrieved text says only 'incompatible with oxidizers' is
\* itself tagged oxidizer
C30_Witness ==
    /\ Summarized
    /\ mix.relevant_docs # <<>>
    /\ \A i \in 1..Len(mix.relevant_docs) :
           mix.relevant_docs[i].text =
               <<"i", "n", "c", "o", "m", "p", "a", "t", "i", "b", "l", "e", " ", "w", "i", "t", "h", " ",
                 "o", "x", "i", "d", "i", "z", "e", "r", "s">>
    /\ "incompatible_with_oxidizers" \in mix.result["incompatibilities"]
    /\ "oxidizer" \in mix.result["properties"]

-----------------------------------------------------------------------------
(* db/aliases.py, one caller, with the backing file edited from outside the
   process between calls *)

RetList(l) == [k |-> "list", b |-> FALSE, n |-> 0, s |-> l]
RetDict(d) == [k |-> "dict", b |-> FALSE, n |-> 0, s |-> d]

\* get_aliases_for on the map d
GetAliasesFor(d, material_name) == SortedStrs(KeysOf(d, Strip(material_name)))

\* list_all_by_material on the map d
ListAllByMaterial(d) ==
    [m \in {d[k] : k \in DOMAIN d} |-> SortedStrs(KeysOf(d, m))]

\* a function that reads the map through _load and changes nothing
Read(c, answer) ==
    /\ IF LoadRaises
       THEN /\ Returned(c, RetRaise)
            /\ UNCHANGED <<cache, heap>>
       ELSE /\ LoadAndStore(Loaded)
            /\ Returned(c, answer)
    /\ UNCHANGED <<file, lock, pc, call, data, rd, hist, corpus, srch, calc, mix>>

get_aliases_for ==
    \E m \in RawMaterials :
        /\ ~last.active
        /\ Read(MkCall("get_aliases_for", m, <<>>, <<>>), RetList(GetAliasesFor(Loaded, m)))

list_all_by_material ==
    /\ ~last.active
    /\ Read(MkCall("list_all_by_material", None, <<>>, <<>>),
            RetDict(ListAllByMaterial(Loaded)))

\* what an editor or another process leaves in data/alias_index.json
ExternalFiles ==
    {AbsentFile, TornFile, OkFile(Put(EmptyMap, <<"h", "f">>, <<"H", "F">>)),
     OkFile(Put(EmptyMap, <<"a">>, <<"X">>))}

ExternalEdit ==
    /\ ~last.active
    /\ \E f \in ExternalFiles \ {file} : file' = f
    /\ UNCHANGED <<cache, heap, last, lock, pc, call, data, rd, hist, corpus, srch, calc,
                   mix>>

NextExt ==
    \/ add_alias
    \/ remove_alias
    \/ resolve_alias
    \/ get_aliases_for
    \/ list_all_by_material
    \/ ExternalEdit
    \/ Return

SpecExt == InitSeq /\ [][NextExt]_vars

\* the functions that only read the map
Readers == {"resolve_alias", "get_aliases_for", "list_all_by_material"}

\* what a reader answers from the map d
Answer(c, d) ==
    CASE c.op = "resolve_alias" -> RetStr(ResolveAlias(d, c.a, c.l))
      [] c.op = "get_aliases_for" -> RetList(GetAliasesFor(d, c.m))
      [] c.op = "list_all_by_material" -> RetDict(ListAllByMaterial(d))

\* a reader returned, having found the cache populated
ReadFromCache ==
    /\ last.active /\ last.call.op \in Readers /\ last.loaded
    /\ ~(last.call.op = "resolve_alias" /\ Blank(last.call.a))

\* C24: once the alias cache has been populated no operation reloads it.  The
\* cached map changes only by a mutation of this process applied to the cached
\* map, whatever happens to the file, and resolve_alias and the listing
\* functions answer from the cached map.
C24_CacheNeverReloaded ==
    /\ [](ReadFromCache => last.ret = Answer(last.call, heap[cache]))
    /\ [][cache # 0 =>
             /\ cache' = cache
             /\ heap'[cache] # heap[cache] =>
                    /\ last'.active /\ last'.call.op \in Mutators
                    /\ heap'[cache] = Body(last'.call, heap[cache]).map]_vars

\* the file was changed from outside to hold another map than the cache, and a
\* reader answered what the file would not have given
C24_Witness ==
    /\ ReadFromCache
    /\ last.fileBefore \in ExternalFiles
    /\ last.fileBefore.st = "ok"
    /\ last.fileBefore.map # heap[cache]
    /\ last.ret # Answer(last.call, last.fileBefore.map)

====
